---- MODULE Spec2Model ----
(***************************************************************************)
(* Review routes, college rating aggregation (updateCollegeRatings) and    *)
(* the college admin routes of the college-booking backend.                *)
(*                                                                         *)
(* Numbers: a JavaScript Number that the code obtains by a division is     *)
(* kept as a reduced fraction [num, den]; counters stay integers.          *)
(***************************************************************************)
EXTENDS Integers, Sequences, FiniteSets, TLC

\* ------------------------------------------------------------------ bounds
NumUsers == 2
NumAuthors == 4
NumColleges == 3
NumProcs == 2
MaxRequests == 3
MaxFaults == 1
MaxOverlaps == 1

\* seedDatabase.js inserts two colleges
NumSeeded == 2

Users == 1..NumUsers
Authors == 1..NumAuthors
CollegeIds == 1..NumColleges
Procs == 1..NumProcs
ReviewKeys == Authors \X CollegeIds
RequestKeys == Users \X CollegeIds
NoKey == <<0, 0>>

\* --------------------------------------------------------------- numbers
RECURSIVE GCD(_, _)
GCD(a, b) == IF b = 0 THEN a ELSE GCD(b, a % b)

Rat(n, d) == LET g == GCD(n, d) IN [num |-> n \div g, den |-> d \div g]
Zero == Rat(0, 1)
Num(k) == Rat(k, 1)

\* x * k and x / k for a Number x and an integer k > 0
RatTimes(x, k) == Rat(x.num * k, x.den)
RatOver(x, k) == Rat(x.num, x.den * k)

\* faulty variant: truncation
MathRoundDown(x) == x.num \div x.den

\* Math.round: the nearest integer, a tie going up
MathRound(x) == (2 * x.num + x.den) \div (2 * x.den)

\* ----------------------------------------------------------------- texts
\* A string is the sequence of its characters; a review or a request holds the
\* name of its text and TextOf gives the characters.
Repeat(s, n) == [i \in 1..(n * Len(s)) |-> s[((i - 1) % Len(s)) + 1]]

\* n copies of the word w, a space between two of them
Words(w, n) == IF n = 0 THEN <<>> ELSE Repeat(w \o <<" ">>, n - 1) \o w

TextIds ==
  {"plain", "padded", "brief", "repeated", "shortwords", "shouting", "offer", "profane",
   "great college", "hi", "sooooo good", "long", "essay", "nineteen", "nineteen and short",
   "AAAAAA this is great", "AAAAA BUY NOW!!! TODAY"}

TextOf(id) ==
  CASE id = "plain" -> Words(<<"a", "b", "c">>, 20)
    [] id = "padded" -> <<" ", " ">> \o Words(<<"a", "b", "c">>, 20) \o <<" ">>
    [] id = "brief" -> Words(<<"a", "b", "c">>, 2)
    [] id = "repeated" -> Repeat(<<"a">>, 60)
    [] id = "shortwords" -> Words(<<"a", "b">>, 30)
    [] id = "shouting" -> Words(<<"A", "B", "C">>, 20)
    [] id = "offer" -> <<"B", "u", "y", " ", "i", "t", " ", "n", "o", "w", " ">>
                         \o Words(<<"a", "b", "c">>, 20)
    [] id = "profane" -> Words(<<"a", "b", "c">>, 20)
                           \o <<" ", "B", "a", "d", "w", "o", "r", "d", "1">>
    [] id = "great college" ->
         <<"g", "r", "e", "a", "t", " ", "c", "o", "l", "l", "e", "g", "e">>
    [] id = "hi" -> <<"h", "i">>
    [] id = "sooooo good" -> <<"s", "o", "o", "o", "o", "o", " ", "g", "o", "o", "d">>
    [] id = "long" -> Words(<<"a", "b", "c">>, 75)
    [] id = "essay" -> Words(<<"c", "a", "m", "p", "u", "s">>, 43)
    [] id = "nineteen" -> Words(<<"a", "b", "c">>, 19)
    [] id = "nineteen and short" ->
         Words(<<"a", "b", "c">>, 19) \o <<" ">> \o Words(<<"a", "b">>, 5) \o <<" ", "a">>
    [] id = "AAAAAA this is great" ->
         <<"A", "A", "A", "A", "A", "A", " ", "t", "h", "i", "s", " ", "i", "s", " ",
           "g", "r", "e", "a", "t">>
    [] id = "AAAAA BUY NOW!!! TODAY" ->
         <<"A", "A", "A", "A", "A", " ", "B", "U", "Y", " ", "N", "O", "W", "!", "!", "!",
           " ", "T", "O", "D", "A", "Y">>

Whitespace == {" ", "\t", "\n", "\r"}

\* String.prototype.trim and express-validator's trim()
RECURSIVE TrimStart(_)
TrimStart(s) ==
  IF s # <<>> /\ Head(s) \in Whitespace THEN TrimStart(Tail(s)) ELSE s
RECURSIVE TrimEnd(_)
TrimEnd(s) ==
  IF s # <<>> /\ s[Len(s)] \in Whitespace THEN TrimEnd(SubSeq(s, 1, Len(s) - 1)) ELSE s
Trim(s) == TrimEnd(TrimStart(s))

\* the name of the text a sanitizer leaves in req.body
TrimmedText == [id \in TextIds |-> CHOOSE j \in TextIds : TextOf(j) = Trim(TextOf(id))]
Trimmed(id) == TrimmedText[id]

\* body(field).trim().isLength({ min, max })
TrimmedLength == [id \in TextIds |-> Len(Trim(TextOf(id)))]

\* content.length
TextLength == [id \in TextIds |-> Len(TextOf(id))]
IsLength(id, min, max) == TrimmedLength[id] \in min..max

\* ------------------------------------------------- validateReviewContent
\* the outcome of a call that throws on reading a property of undefined
TypeError == [threw |-> "TypeError"]

\* the value undefined, for an argument that was not passed: no string has an
\* element of more than one character
Undefined == <<"undefined">>

\* String(x), which RegExp.prototype.test applies to its argument
StringOf(x) ==
  IF x = Undefined THEN <<"u", "n", "d", "e", "f", "i", "n", "e", "d">> ELSE x

LowerCase ==
  <<"a", "b", "c", "d", "e", "f", "g", "h", "i", "j", "k", "l", "m",
    "n", "o", "p", "q", "r", "s", "t", "u", "v", "w", "x", "y", "z">>
UpperCase ==
  <<"A", "B", "C", "D", "E", "F", "G", "H", "I", "J", "K", "L", "M",
    "N", "O", "P", "Q", "R", "S", "T", "U", "V", "W", "X", "Y", "Z">>
UpperChars == { UpperCase[i] : i \in 1..26 }
LineTerminators == {"\n", "\r"}

\* one character of String.prototype.toLowerCase
ToLower(c) ==
  IF c \in UpperChars THEN LowerCase[CHOOSE i \in 1..26 : UpperCase[i] = c] ELSE c

\* the word w is in s at position i, letter case ignored or not
MatchAt(s, i, w, ignoreCase) ==
  /\ i + Len(w) - 1 <= Len(s)
  /\ \A j \in 1..Len(w) :
       IF ignoreCase THEN ToLower(s[i + j - 1]) = ToLower(w[j]) ELSE s[i + j - 1] = w[j]

\* /(.)\1{4,}/.test(s): a character other than a line end, five times in a row
RepeatedCharacters(s) ==
  \E i \in 1..(Len(s) - 4) :
    /\ s[i] \notin LineTerminators
    /\ \A j \in 1..4 : s[i + j] = s[i]

\* /^[A-Z\s!]{20,}$/.test(s)
AllCaps(s) ==
  /\ Len(s) >= 20
  /\ \A i \in 1..Len(s) : s[i] \in UpperChars \cup Whitespace \cup {"!"}

SaleWords ==
  { <<"b", "u", "y">>, <<"s", "e", "l", "l">>, <<"c", "h", "e", "a", "p">>,
    <<"d", "i", "s", "c", "o", "u", "n", "t">>, <<"o", "f", "f", "e", "r">>,
    <<"d", "e", "a", "l">> }
UrgeWords ==
  { <<"n", "o", "w">>, <<"t", "o", "d", "a", "y">>, <<"c", "l", "i", "c", "k">> }

\* /(buy|sell|cheap|discount|offer|deal).{0,20}(now|today|click)/i.test(s)
SalesPitch(s) ==
  \E i \in 1..Len(s) : \E w \in SaleWords :
    /\ MatchAt(s, i, w, TRUE)
    /\ \E g \in 0..20 : \E v \in UrgeWords :
         /\ MatchAt(s, i + Len(w) + g, v, TRUE)
         /\ \A j \in 0..(g - 1) : s[i + Len(w) + j] \notin LineTerminators

\* spamPatterns, in order
SpamPatterns == <<"repeated", "caps", "pitch">>
PatternTest(pattern, s) ==
  CASE pattern = "repeated" -> RepeatedCharacters(s)
    [] pattern = "caps" -> AllCaps(s)
    [] pattern = "pitch" -> SalesPitch(s)

\* faulty variant: every piece between whitespace counts, whatever its length
AllWords(s) ==
  Cardinality({ i \in 1..Len(s) :
                  /\ i = 1 \/ s[i - 1] \in Whitespace
                  /\ s[i] \notin Whitespace })

\* content.split(/\s+/).filter((word) => word.length > 2).length: the pieces between
\* runs of whitespace that have three characters or more, counted by where they start
MeaningfulWords(s) ==
  Cardinality({ i \in 1..(Len(s) - 2) :
                  /\ i = 1 \/ s[i - 1] \in Whitespace
                  /\ \A j \in 0..2 : s[i + j] \notin Whitespace })

\* profanityWords, in order
ProfanityList ==
  << <<"b", "a", "d", "w", "o", "r", "d", "1">>, <<"b", "a", "d", "w", "o", "r", "d", "2">> >>
ProfanityWords == { ProfanityList[i] : i \in 1..Len(ProfanityList) }

\* s.toLowerCase().includes(word)
LowerIncludes(s, w) ==
  \E i \in 1..Len(s) :
    /\ i + Len(w) - 1 <= Len(s)
    /\ \A j \in 1..Len(w) : ToLower(s[i + j - 1]) = w[j]

\* faulty variant: one spam error at most, however many patterns match
SpamErrorOnce(content, title, n) ==
  IF \E m \in n..Len(SpamPatterns) :
       \/ PatternTest(SpamPatterns[m], StringOf(content))
       \/ PatternTest(SpamPatterns[m], StringOf(title))
  THEN <<"Content appears to be spam">> ELSE <<>>

\* the errors pushed for the spam patterns from the n-th on
RECURSIVE SpamErrors(_, _, _)
SpamErrors(content, title, n) ==
  IF n > Len(SpamPatterns) THEN <<>>
  ELSE (IF \/ PatternTest(SpamPatterns[n], StringOf(content))
              \/ PatternTest(SpamPatterns[n], StringOf(title))
        THEN <<"Content appears to be spam">> ELSE <<>>)
       \o SpamErrors(content, title, n + 1)

\* profanityWords.some(...) reads title.toLowerCase() for the first word the content
\* does not include
ReadsTitle(content) ==
  \E i \in 1..Len(ProfanityList) :
    /\ ~LowerIncludes(content, ProfanityList[i])
    /\ \A j \in 1..(i - 1) : ~LowerIncludes(content, ProfanityList[j])

\* content.split and content.toLowerCase throw for an undefined content,
\* title.toLowerCase for an undefined title
validateReviewContent(content, title) ==
  IF content = Undefined THEN TypeError
  ELSE IF title = Undefined /\ ReadsTitle(content) THEN TypeError
  ELSE
  LET errors ==
        SpamErrors(content, title, 1)
        \o (IF MeaningfulWords(content) < 20
            THEN <<"Review must contain at least 20 meaningful words">> ELSE <<>>)
        \o (IF \E w \in ProfanityWords : LowerIncludes(content, w) \/ LowerIncludes(title, w)
            THEN <<"Review contains inappropriate language">> ELSE <<>>)
  IN [isValid |-> Len(errors) = 0, errors |-> errors]

\* --------------------------------------------------------------- reviews
RatingFields == {"academics", "campusLife", "facilities", "location", "value"}

Ratings(o, a, c, f, l, v) ==
  [overall |-> o, academics |-> a, campusLife |-> c, facilities |-> f,
   location |-> l, value |-> v]

\* rating vectors the requests and the stored reviews are drawn from
RatingChoices ==
  { Ratings(5, 5, 5, 5, 5, 5), Ratings(4, 3, 4, 2, 5, 1), Ratings(3, 4, 2, 5, 1, 3) }
BadRatings == Ratings(6, 5, 5, 5, 5, 5)
NoRatings == Ratings(0, 0, 0, 0, 0, 0)

\* body("ratings.*").isInt({ min: 1, max: 5 })
ValidRatings(r) ==
  /\ r.overall \in 1..5
  /\ \A f \in RatingFields : r[f] \in 1..5

NoVotes == [count |-> 0, users |-> <<>>]

\* new Review({...req.body, user}) for a body of ratings r, a plain title and content
\* and none of the fields the schema gives a default
NewReview(r) ==
  [ratings |-> r, title |-> "great college", content |-> "plain",
   isActive |-> TRUE, verified |-> FALSE, helpful |-> NoVotes, reported |-> NoVotes]

\* new Review({...req.body, user}): every schema path the body carries is taken from it
ReviewFromBody(b) ==
  [NewReview(b.ratings) EXCEPT !.title = b.title, !.content = b.content,
                               !.reported = b.reported]

\* no document loaded
NoReview ==
  [ratings |-> NoRatings, title |-> "", content |-> "",
   isActive |-> FALSE, verified |-> FALSE, helpful |-> NoVotes, reported |-> NoVotes]

\* ------------------------------------------------------- rating summary
Breakdown(a, c, f, l, v) ==
  [academics |-> a, campusLife |-> c, facilities |-> f, location |-> l, value |-> v]

Summary(avg, total, bd) ==
  [averageRating |-> avg, totalReviews |-> total, ratingBreakdown |-> bd]

\* the schema defaults of College.reviews
DefaultSummary == Summary(Zero, 0, Breakdown(Zero, Zero, Zero, Zero, Zero))

\* the zero summary updateCollegeRatings writes for an empty review set
ZeroSummary == Summary(Zero, 0, Breakdown(Zero, Zero, Zero, Zero, Zero))

\* reviews: { averageRating: 4.5, totalReviews: 0 } and 4.4 in the seed
SeedSummary(c) ==
  IF c = 1 THEN Summary(Rat(45, 10), 0, Breakdown(Zero, Zero, Zero, Zero, Zero))
  ELSE Summary(Rat(44, 10), 0, Breakdown(Zero, Zero, Zero, Zero, Zero))

\* faulty variant: every field summed from ratings.overall
RECURSIVE SumOverall(_, _)
SumOverall(rs, f) ==
  IF rs = {} THEN 0
  ELSE LET x == CHOOSE y \in rs : TRUE
       IN x.ratings.overall + SumOverall(rs \ {x}, f)

\* reviews.reduce((sum, review) => sum + review.ratings[f], 0)
RECURSIVE SumRatings(_, _)
SumRatings(rs, f) ==
  IF rs = {} THEN 0
  ELSE LET x == CHOOSE y \in rs : TRUE
       IN x.ratings[f] + SumRatings(rs \ {x}, f)

ComputeSummary(rs) ==
  IF Cardinality(rs) = 0 THEN ZeroSummary
  ELSE LET totalReviews == Cardinality(rs)
           averageRating == Rat(SumRatings(rs, "overall"), totalReviews)
           mean(f) == Rat(SumRatings(rs, f), totalReviews)
       IN Summary(RatOver(Num(MathRound(RatTimes(averageRating, 10))), 10),
                  totalReviews,
                  Breakdown(mean("academics"), mean("campusLife"), mean("facilities"),
                            mean("location"), mean("value")))

\* ----------------------------------------------------------------- state
VARIABLES
  reviews,       \* the Review collection, by (user, college): the unique index
  colleges,      \* the College collection, by id
  req,           \* the requests in progress, one per slot
  lastResponse,  \* the response sent last
  started,       \* requests started so far
  faults,        \* persistence errors raised so far
  overlaps,      \* history: requests started while another was in progress
  reviewWrites,  \* history: review documents written, per college
  lastAgg,       \* history: what the last write of updateCollegeRatings was computed from
  helper,        \* the call of a reviewHelpers function: its argument and its result
  applications,  \* the Application collection, by (applicant, college)
  applicants     \* User.applications of each user

vars ==
  <<reviews, colleges, req, lastResponse, started, faults, overlaps, reviewWrites, lastAgg,
    helper, applications, applicants>>

Slug(c) == IF c = 1 THEN "stanford-university" ELSE IF c = 2 THEN "mit" ELSE "new-college"

\* a document of the seed's colleges array, with the schema defaults
SeedCollege(c) ==
  [slug |-> Slug(c), isActive |-> TRUE, featured |-> FALSE, reviews |-> SeedSummary(c)]

IdleReq ==
  [pc |-> "idle", kind |-> "none", rid |-> NoKey, college |-> 0,
   hasRatings |-> FALSE, ratings |-> NoRatings, action |-> "none",
   title |-> "", content |-> "", reported |-> NoVotes, user |-> 0, helpful |-> FALSE,
   doc |-> NoReview, snapshot |-> {}, readAt |-> 0, write |-> "none"]

NoResponse == [kind |-> "none", college |-> 0, action |-> "none", status |-> 0]
NoAgg == [written |-> FALSE, snapshot |-> {}, readAt |-> 0]
NoCall == [fn |-> "none"]

\* faulty variants: the college filter dropped, the isActive filter dropped
ActiveReviewsOfAnyCollege(c) ==
  { [key |-> k, ratings |-> reviews[k].ratings] :
      k \in { j \in DOMAIN reviews : reviews[j].isActive } }
ReviewsOfCollege(c) ==
  { [key |-> k, ratings |-> reviews[k].ratings] :
      k \in { j \in DOMAIN reviews : j[2] = c } }

\* Review.find({ college: collegeId, isActive: true })
ActiveReviewsOf(c) ==
  { [key |-> k, ratings |-> reviews[k].ratings] :
      k \in { j \in DOMAIN reviews : j[2] = c /\ reviews[j].isActive } }

\* faulty variants: no write for an empty review set, a count added to the stored
\* count, the breakdown left out of the update
UpdateSkippingEmpty(c, s) ==
  IF c \in DOMAIN colleges /\ s.totalReviews > 0
  THEN [colleges EXCEPT ![c].reviews = s] ELSE colleges
UpdateIncremental(c, s) ==
  IF c \in DOMAIN colleges
  THEN [colleges EXCEPT ![c].reviews =
          Summary(s.averageRating, @.totalReviews + s.totalReviews, s.ratingBreakdown)]
  ELSE colleges
UpdateWithoutBreakdown(c, s) ==
  IF c \in DOMAIN colleges
  THEN [colleges EXCEPT ![c].reviews =
          Summary(s.averageRating, s.totalReviews, @.ratingBreakdown)]
  ELSE colleges

\* College.findByIdAndUpdate(collegeId, { "reviews.averageRating": .., "reviews.totalReviews": ..,
\* "reviews.ratingBreakdown": .. }): one update of one document; no document, no change
FindByIdAndUpdate(c, s) ==
  IF c \in DOMAIN colleges THEN [colleges EXCEPT ![c].reviews = s] ELSE colleges

\* faulty variant: one field written before the rejection
PartialUpdate(c, s) ==
  IF c \in DOMAIN colleges
  THEN [colleges EXCEPT ![c].reviews.averageRating = s.averageRating] ELSE colleges

\* the same update rejected by the persistence layer: the document is left as it was
RejectedUpdate(c, s) == colleges

\* -------------------------------------------------------------- requests
AllIdle == \A p \in Procs : req[p].pc = "idle"

\* a request takes the first free slot
FreeSlot(p) ==
  /\ req[p].pc = "idle"
  /\ \A q \in Procs : q < p => req[q].pc # "idle"

\* the request is counted, and counted as overlapping when another is in progress
Admit(p) ==
  /\ FreeSlot(p)
  /\ started < MaxRequests
  /\ started' = started + 1
  /\ IF AllIdle THEN overlaps' = overlaps
     ELSE overlaps < MaxOverlaps /\ overlaps' = overlaps + 1

\* res.status(..).json(..): the request is over
Respond(p, status) ==
  /\ req' = [req EXCEPT ![p] = IdleReq]
  /\ lastResponse' = [kind |-> req[p].kind, college |-> req[p].college,
                      action |-> req[p].action, status |-> status]

SuccessStatus(kind) == IF kind = "create" THEN 201 ELSE 200

\* ----------------------------------------------------- updateCollegeRatings
\* a direct call of updateCollegeRatings(collegeId)
AggCall(p, c) ==
  /\ Admit(p)
  /\ c \in DOMAIN colleges
  /\ req' = [req EXCEPT ![p] = [IdleReq EXCEPT !.pc = "aggRead", !.kind = "recompute",
                                               !.college = c]]
  /\ UNCHANGED <<reviews, colleges, lastResponse, faults, reviewWrites, lastAgg, helper, applications, applicants>>

\* const reviews = await Review.find(..)
AggRead(p) ==
  /\ req[p].pc = "aggRead"
  /\ req' = [req EXCEPT ![p].snapshot = ActiveReviewsOf(req[p].college),
                        ![p].readAt = reviewWrites[req[p].college],
                        ![p].pc = "aggWrite"]
  /\ UNCHANGED <<reviews, colleges, lastResponse, started, faults, reviewWrites, lastAgg, overlaps, helper, applications, applicants>>

\* Review.find rejects: the error reaches the caller, nothing is written
AggReadFail(p) ==
  /\ req[p].pc = "aggRead"
  /\ faults < MaxFaults
  /\ faults' = faults + 1
  /\ Respond(p, 500)
  /\ UNCHANGED <<reviews, colleges, started, reviewWrites, lastAgg, overlaps, helper, applications, applicants>>

\* await College.findByIdAndUpdate(..), then back in the caller
AggWrite(p) ==
  /\ req[p].pc = "aggWrite"
  /\ colleges' = FindByIdAndUpdate(req[p].college, ComputeSummary(req[p].snapshot))
  /\ lastAgg' = [lastAgg EXCEPT ![req[p].college] =
                   [written |-> TRUE, snapshot |-> req[p].snapshot, readAt |-> req[p].readAt]]
  /\ IF req[p].kind = "moderate"
     THEN /\ req' = [req EXCEPT ![p].pc = "save", ![p].snapshot = {}, ![p].readAt = 0]
          /\ UNCHANGED lastResponse
     ELSE Respond(p, SuccessStatus(req[p].kind))
  /\ UNCHANGED <<reviews, started, faults, reviewWrites, overlaps, helper, applications, applicants>>

\* College.findByIdAndUpdate rejects
AggWriteFail(p) ==
  /\ req[p].pc = "aggWrite"
  /\ faults < MaxFaults
  /\ faults' = faults + 1
  /\ colleges' = RejectedUpdate(req[p].college, ComputeSummary(req[p].snapshot))
  /\ Respond(p, 500)
  /\ UNCHANGED <<reviews, started, reviewWrites, lastAgg, overlaps, helper, applications, applicants>>

\* ------------------------------------------- the aggregator on stored data
InactiveReview(r) == [NewReview(r) EXCEPT !.isActive = FALSE]

StoredChoices ==
  {NoReview} \cup { NewReview(r) : r \in RatingChoices }
             \cup { InactiveReview(Ratings(3, 4, 2, 5, 1, 3)) }

StaleSummary ==
  Summary(Num(2), 7, Breakdown(Num(1), Num(2), Num(3), Num(4), Num(5)))

InitAgg ==
  /\ \E f \in [Authors -> StoredChoices] : \E g \in {NoReview, NewReview(Ratings(5, 5, 5, 5, 5, 5))} :
       reviews = [k \in { <<a, 1>> : a \in { b \in Authors : f[b] # NoReview } }
                            \cup { j \in {<<1, 2>>} : g # NoReview } |->
                    IF k[2] = 1 THEN f[k[1]] ELSE g]
  /\ \E i \in 1..3 :
       colleges = [c \in 1..NumSeeded |->
                     [SeedCollege(c) EXCEPT !.reviews =
                        IF i = 1 THEN SeedSummary(c)
                        ELSE IF i = 2 THEN DefaultSummary ELSE StaleSummary]]
  /\ req = [p \in Procs |-> IdleReq]
  /\ lastResponse = NoResponse
  /\ started = 0
  /\ overlaps = 0
  /\ faults = 0
  /\ reviewWrites = [c \in CollegeIds |-> 0]
  /\ lastAgg = [c \in CollegeIds |-> NoAgg]
  /\ helper = NoCall
  /\ applications = << >>
  /\ applicants = [u \in Users |-> << >>]

NextAgg ==
  \/ \E p \in Procs : \E c \in CollegeIds : AllIdle /\ AggCall(p, c)
  \/ \E p \in Procs : AggRead(p)
  \/ \E p \in Procs : AggReadFail(p)
  \/ \E p \in Procs : AggWrite(p)
  \/ \E p \in Procs : AggWriteFail(p)

SpecAgg == InitAgg /\ [][NextAgg]_vars

\* ---------------------------------------------------------- review routes
\* the seeded database: two colleges, no review
Init ==
  /\ reviews = [k \in {} |-> NoReview]
  /\ colleges = [c \in 1..NumSeeded |-> SeedCollege(c)]
  /\ req = [p \in Procs |-> IdleReq]
  /\ lastResponse = NoResponse
  /\ started = 0
  /\ overlaps = 0
  /\ faults = 0
  /\ reviewWrites = [c \in CollegeIds |-> 0]
  /\ lastAgg = [c \in CollegeIds |-> NoAgg]
  /\ helper = NoCall
  /\ applications = << >>
  /\ applicants = [u \in Users |-> << >>]

\* the locals of a handler that has loaded review k of college c
Begin(kind, k, c) == [IdleReq EXCEPT !.kind = kind, !.rid = k, !.college = c]

\* the locals still in use when a route calls updateCollegeRatings(collegeId): the
\* college id, and in the moderation route the loaded review, saved afterwards
Calling(r) ==
  IF r.kind = "moderate"
  THEN [r EXCEPT !.pc = "aggRead"]
  ELSE [IdleReq EXCEPT !.pc = "aggRead", !.kind = r.kind, !.college = r.college]

\* POST /api/reviews with ratings r, title t, content x and, when the body carries
\* it, reported rep: validationResult, then College.findById
StartCreateBody(p, u, c, r, t, x, rep) ==
  /\ Admit(p)
  /\ LET b == [Begin("create", <<u, c>>, c) EXCEPT !.ratings = r, !.title = Trimmed(t),
                  !.content = Trimmed(x), !.reported = rep]
     IN IF ~(IsLength(t, 5, 100) /\ IsLength(x, 50, 2000) /\ ValidRatings(r))
        THEN /\ req' = req
             /\ lastResponse' = [kind |-> "create", college |-> c, action |-> "none",
                      status |-> 400]
        ELSE IF c \notin DOMAIN colleges
        THEN /\ req' = req
             /\ lastResponse' = [kind |-> "create", college |-> c, action |-> "none",
                      status |-> 404]
        ELSE /\ req' = [req EXCEPT ![p] = [b EXCEPT !.pc = "findOne"]]
             /\ UNCHANGED lastResponse
  /\ UNCHANGED <<reviews, colleges, faults, reviewWrites, lastAgg, helper, applications, applicants>>

\* the same request with a plain title and content and the ratings r
StartCreate(p, u, c, r) == StartCreateBody(p, u, c, r, "great college", "plain", NoVotes)

\* faulty variant: the duplicate check looks at active reviews only
ExistingActiveReview(k) == k \in DOMAIN reviews /\ reviews[k].isActive

\* existingReview: Review.findOne({ user, college }) finds a review, active or not
ExistingReview(k) == k \in DOMAIN reviews

\* Review.findOne({ user, college }): any review of the pair, active or not
CreateFindOne(p) ==
  /\ req[p].pc = "findOne"
  /\ IF ExistingReview(req[p].rid)
     THEN Respond(p, 400)
     ELSE /\ req' = [req EXCEPT ![p].pc = "save"]
          /\ UNCHANGED lastResponse
  /\ UNCHANGED <<reviews, colleges, started, faults, reviewWrites, lastAgg, overlaps, helper, applications, applicants>>

\* await review.save(): an insert, refused by the unique (user, college) index
InsertReview(k, b) == (k :> ReviewFromBody(b)) @@ reviews

\* faulty variant: no unique index
NoUniqueIndex(k) == FALSE

\* reviewSchema.index({ user: 1, college: 1 }, { unique: true }): an insert of a pair that
\* has a document is a duplicate key error
DuplicateKey(k) == k \in DOMAIN reviews

CreateSave(p) ==
  /\ req[p].pc = "save"
  /\ req[p].kind = "create"
  /\ IF DuplicateKey(req[p].rid)
     THEN /\ Respond(p, 500)
          /\ UNCHANGED <<reviews, reviewWrites>>
     ELSE /\ reviews' = InsertReview(req[p].rid, req[p])
          /\ reviewWrites' = [reviewWrites EXCEPT ![req[p].college] = @ + 1]
          /\ req' = [req EXCEPT ![p] = Calling(req[p])]
          /\ UNCHANGED lastResponse
  /\ UNCHANGED <<colleges, started, faults, lastAgg, overlaps, helper, applications, applicants>>

\* faulty variant: the user left out of the query
AnyonesReview(u, k) == k \in DOMAIN reviews

\* Review.findOne({ _id: id, user: req.user.id })
OwnReview(u, k) == k \in DOMAIN reviews /\ k[1] = u

\* PUT /api/reviews/:id: find the author's review, set the allowed fields sent
StartUpdate(p, u, k, hr, r) ==
  /\ Admit(p)
  /\ LET b == [Begin("update", k, k[2]) EXCEPT !.user = u, !.hasRatings = hr, !.ratings = r]
     IN IF ~OwnReview(u, k)
        THEN /\ req' = req
             /\ lastResponse' = [kind |-> "update", college |-> k[2], action |-> "none",
                      status |-> 404]
        ELSE /\ req' = [req EXCEPT ![p] = [b EXCEPT !.pc = "save", !.doc = reviews[k]]]
             /\ UNCHANGED lastResponse
  /\ UNCHANGED <<reviews, colleges, faults, reviewWrites, lastAgg, helper, applications, applicants>>

\* await review.save(): the modified paths are validated and written
SetRatings(k, r) == [reviews EXCEPT ![k].ratings = r]

UpdateSave(p) ==
  /\ req[p].pc = "save"
  /\ req[p].kind = "update"
  /\ LET modified == req[p].hasRatings /\ req[p].ratings # req[p].doc.ratings
     IN IF modified /\ ~ValidRatings(req[p].ratings)
        THEN /\ Respond(p, 500)
             /\ UNCHANGED <<reviews, reviewWrites>>
        ELSE /\ reviews' = IF modified THEN SetRatings(req[p].rid, req[p].ratings) ELSE reviews
             /\ reviewWrites' = IF modified
                                THEN [reviewWrites EXCEPT ![req[p].college] = @ + 1]
                                ELSE reviewWrites
             /\ req' = [req EXCEPT ![p] = Calling(req[p])]
             /\ UNCHANGED lastResponse
  /\ UNCHANGED <<colleges, started, faults, lastAgg, overlaps, helper, applications, applicants>>

\* DELETE /api/reviews/:id: find the author's review
StartDelete(p, u, k) ==
  /\ Admit(p)
  /\ IF ~OwnReview(u, k)
     THEN /\ req' = req
          /\ lastResponse' = [kind |-> "delete", college |-> k[2], action |-> "none",
                      status |-> 404]
     ELSE /\ req' = [req EXCEPT ![p] =
                       [Begin("delete", k, k[2]) EXCEPT !.pc = "save", !.user = u,
                                                              !.doc = reviews[k]]]
          /\ UNCHANGED lastResponse
  /\ UNCHANGED <<reviews, colleges, faults, reviewWrites, lastAgg, helper, applications, applicants>>

\* faulty variant: the document removed
RemoveReview(k) == [j \in DOMAIN reviews \ {k} |-> reviews[j]]

\* review.isActive = false; await review.save()
SetInactive(k) == [reviews EXCEPT ![k].isActive = FALSE]

DeleteSave(p) ==
  /\ req[p].pc = "save"
  /\ req[p].kind = "delete"
  /\ reviews' = IF req[p].doc.isActive THEN SetInactive(req[p].rid) ELSE reviews
  /\ reviewWrites' = IF req[p].doc.isActive
                     THEN [reviewWrites EXCEPT ![req[p].college] = @ + 1]
                     ELSE reviewWrites
  /\ req' = [req EXCEPT ![p] = Calling(req[p])]
  /\ UNCHANGED <<colleges, lastResponse, started, faults, lastAgg, overlaps, helper, applications, applicants>>

ModerateActions == {"remove", "approve", "warn"}

\* POST /api/reviews/:id/moderate: Review.findById, then by action; "remove" sets
\* isActive on the loaded document and calls updateCollegeRatings before the save
StartModerate(p, k, action) ==
  /\ Admit(p)
  /\ IF k \notin DOMAIN reviews
     THEN /\ req' = req
          /\ lastResponse' = [kind |-> "moderate", college |-> k[2], action |-> action,
                      status |-> 404]
     ELSE /\ req' = [req EXCEPT ![p] =
                       [Begin("moderate", k, k[2]) EXCEPT
                          !.action = action, !.doc = reviews[k],
                          !.pc = IF action = "remove" THEN "aggRead" ELSE "save"]]
          /\ UNCHANGED lastResponse
  /\ UNCHANGED <<reviews, colleges, faults, reviewWrites, lastAgg, helper, applications, applicants>>

\* await review.save() of the moderation route
ModerateSave(p) ==
  /\ req[p].pc = "save"
  /\ req[p].kind = "moderate"
  /\ LET k == req[p].rid
         written == \/ req[p].action = "remove" /\ req[p].doc.isActive
                    \/ req[p].action = "approve" /\ req[p].doc.reported # NoVotes
     IN /\ reviews' = IF req[p].action = "remove" /\ req[p].doc.isActive
                      THEN SetInactive(k)
                      ELSE IF req[p].action = "approve" /\ req[p].doc.reported # NoVotes
                      THEN [reviews EXCEPT ![k].reported = NoVotes]
                      ELSE reviews
        /\ reviewWrites' = IF written THEN [reviewWrites EXCEPT ![req[p].college] = @ + 1]
                           ELSE reviewWrites
  /\ Respond(p, 200)
  /\ UNCHANGED <<colleges, started, faults, lastAgg, overlaps, helper, applications, applicants>>

\* Review.findOne({ _id: id, isActive: true }) finds a document
ActiveReview(k) == k \in DOMAIN reviews /\ reviews[k].isActive

\* array.includes(id)
Includes(users, u) == \E i \in 1..Len(users) : users[i] = u

\* faulty variant: the vote counted without a look at the voters
VoteAlways(votes, u, h) ==
  IF h THEN [count |-> votes.count + 1, users |-> Append(votes.users, u)]
  ELSE [count |-> votes.count - 1, users |-> SelectSeq(votes.users, LAMBDA x : x # u)]

\* helpful: push the user and count one more unless they voted; not helpful: filter
\* the user out and count one less if they voted
Vote(votes, u, h) ==
  LET hasVoted == Includes(votes.users, u) IN
  IF h THEN IF ~hasVoted
            THEN [count |-> votes.count + 1, users |-> Append(votes.users, u)]
            ELSE votes
  ELSE IF hasVoted
       THEN [count |-> votes.count - 1, users |-> SelectSeq(votes.users, LAMBDA x : x # u)]
       ELSE votes

\* POST /api/reviews/:id/helpful with { helpful: h } by user u
StartHelpful(p, u, k, h) ==
  /\ Admit(p)
  /\ IF ~ActiveReview(k)
     THEN /\ req' = req
          /\ lastResponse' = [kind |-> "helpful", college |-> k[2], action |-> "none",
                      status |-> 404]
     ELSE /\ req' = [req EXCEPT ![p] =
                       [Begin("helpful", k, k[2]) EXCEPT
                          !.pc = "save", !.user = u, !.helpful = h,
                          !.doc = [reviews[k] EXCEPT !.helpful = Vote(@, u, h)],
                          !.write = IF Vote(reviews[k].helpful, u, h) = reviews[k].helpful
                                    THEN "none"
                                    ELSE IF h THEN "push" ELSE "set"]]
          /\ UNCHANGED lastResponse
  /\ UNCHANGED <<reviews, colleges, faults, reviewWrites, lastAgg, helper, applications, applicants>>

\* review.reported.users.push(req.user.id); review.reported.count += 1
Report(votes, u) == [count |-> votes.count + 1, users |-> Append(votes.users, u)]

\* POST /api/reviews/:id/report by user u
StartReport(p, u, k) ==
  /\ Admit(p)
  /\ IF ~ActiveReview(k)
     THEN /\ req' = req
          /\ lastResponse' = [kind |-> "report", college |-> k[2], action |-> "none",
                      status |-> 404]
     ELSE IF Includes(reviews[k].reported.users, u)
     THEN /\ req' = req
          /\ lastResponse' = [kind |-> "report", college |-> k[2], action |-> "none",
                      status |-> 400]
     ELSE /\ req' = [req EXCEPT ![p] =
                       [Begin("report", k, k[2]) EXCEPT
                          !.pc = "save", !.user = u, !.write = "push",
                          !.doc = [reviews[k] EXCEPT !.reported = Report(@, u)]]]
          /\ UNCHANGED lastResponse
  /\ UNCHANGED <<reviews, colleges, faults, reviewWrites, lastAgg, helper, applications, applicants>>

\* what review.save() makes of the votes: a push on the array reaches the stored array
\* as a push, whatever it holds by then; an assigned array and the count, a number,
\* are written as the request holds them
SaveVotes(stored, mine, u, write) ==
  CASE write = "push" -> [count |-> mine.count, users |-> Append(stored.users, u)]
    [] write = "set" -> mine
    [] OTHER -> stored

\* await review.save() of the helpful and report routes: the modified paths are written
VoteSave(p) ==
  /\ req[p].pc = "save"
  /\ req[p].kind \in {"helpful", "report"}
  /\ LET k == req[p].rid
         u == req[p].user
         w == req[p].write
     IN /\ reviews' = IF req[p].kind = "helpful"
                      THEN [reviews EXCEPT
                              ![k].helpful = SaveVotes(@, req[p].doc.helpful, u, w)]
                      ELSE [reviews EXCEPT
                              ![k].reported = SaveVotes(@, req[p].doc.reported, u, w)]
        /\ reviewWrites' = IF w # "none" THEN [reviewWrites EXCEPT ![req[p].college] = @ + 1]
                           ELSE reviewWrites
  /\ Respond(p, 200)
  /\ UNCHANGED <<colleges, started, faults, lastAgg, overlaps, helper, applications, applicants>>

\* review.save() rejects: the route's catch answers 500
SaveFail(p) ==
  /\ req[p].pc = "save"
  /\ faults < MaxFaults
  /\ faults' = faults + 1
  /\ Respond(p, 500)
  /\ UNCHANGED <<reviews, colleges, started, reviewWrites, lastAgg, overlaps, helper, applications, applicants>>

\* ------------------------------------------------------------ read routes
\* a request handled in one step: it is counted like any other
Counted ==
  /\ started < MaxRequests
  /\ started' = started + 1
  /\ overlaps' = overlaps

\* the documents of a response, as far as the properties look at them
Returned(ks) == { [key |-> k, isActive |-> reviews[k].isActive] : k \in ks }

ReadResponse(kind, c, status, ks) ==
  [kind |-> kind, college |-> c, action |-> "none", status |-> status, data |-> Returned(ks)]

AnyCollege == 0
AnyUser == 0
Query(c, u, rating, reported) ==
  [college |-> c, user |-> u, rating |-> rating, reported |-> reported]

\* faulty variant: isActive left out of the query
FindReviewsOfAnyState(q) ==
  { k \in DOMAIN reviews :
      /\ q.college = AnyCollege \/ k[2] = q.college
      /\ q.user = AnyUser \/ k[1] = q.user
      /\ reviews[k].ratings.overall >= q.rating
      /\ q.reported => reviews[k].reported.count > 0 }

\* Review.find({ isActive: true, college, user, "ratings.overall": { $gte: rating },
\* "reported.count": { $gt: 0 } }), each condition but the first only when the route puts it
FindReviews(q) ==
  { k \in DOMAIN reviews :
      /\ reviews[k].isActive
      /\ q.college = AnyCollege \/ k[2] = q.college
      /\ q.user = AnyUser \/ k[1] = q.user
      /\ reviews[k].ratings.overall >= q.rating
      /\ q.reported => reviews[k].reported.count > 0 }

\* a read route: the database is left as it is
ReadOnly ==
  /\ Counted
  /\ UNCHANGED <<reviews, colleges, req, faults, reviewWrites, lastAgg, helper, applications, applicants>>

\* GET /api/reviews?college=c&rating=rating
ListReviews(c, rating) ==
  /\ ReadOnly
  /\ lastResponse' = ReadResponse("list", c, 200, FindReviews(Query(c, AnyUser, rating, FALSE)))

\* GET /api/reviews/college/:collegeId?rating=rating
ListByCollege(c, rating) ==
  /\ ReadOnly
  /\ lastResponse' =
       ReadResponse("byCollege", c, 200, FindReviews(Query(c, AnyUser, rating, FALSE)))

\* GET /api/reviews/:id
GetReview(k) ==
  /\ ReadOnly
  /\ lastResponse' = IF ActiveReview(k) THEN ReadResponse("get", k[2], 200, {k})
                      ELSE ReadResponse("get", k[2], 404, {})

\* GET /api/reviews/user/my-reviews by user u
MyReviews(u) ==
  /\ ReadOnly
  /\ lastResponse' =
       ReadResponse("myReviews", 0, 200, FindReviews(Query(AnyCollege, u, 0, FALSE)))

\* GET /api/reviews/admin/reported
AdminReported ==
  /\ ReadOnly
  /\ lastResponse' =
       ReadResponse("reported", 0, 200, FindReviews(Query(AnyCollege, AnyUser, 0, TRUE)))

\* GET /api/colleges/:slug: the active college of that slug and its recent reviews
CollegeDetail(slug) ==
  /\ ReadOnly
  /\ LET found == { c \in DOMAIN colleges : colleges[c].slug = slug /\ colleges[c].isActive }
     IN lastResponse' =
          IF found = {} THEN ReadResponse("college", 0, 404, {})
          ELSE LET c == CHOOSE d \in found : TRUE
               IN ReadResponse("college", c, 200, FindReviews(Query(c, AnyUser, 0, FALSE)))

\* --------------------------------------------------------- college routes
SlugInputs == {"mit", "new-college"}

\* POST /api/colleges: new College(req.body), reviews taken from the body when sent
CreateCollege(slug, sent, s) ==
  /\ started < MaxRequests
  /\ started' = started + 1
  /\ overlaps' = overlaps
  /\ IF \E c \in DOMAIN colleges : colleges[c].slug = slug
     THEN /\ lastResponse' = [kind |-> "createCollege", college |-> 0, action |-> "none",
                      status |-> 400]
          /\ UNCHANGED colleges
     ELSE /\ CollegeIds \ DOMAIN colleges # {}
          /\ LET c == CHOOSE d \in CollegeIds \ DOMAIN colleges :
                        \A e \in CollegeIds \ DOMAIN colleges : d <= e
             IN /\ colleges' = (c :> [slug |-> slug, isActive |-> TRUE, featured |-> FALSE,
                                      reviews |-> IF sent THEN s ELSE DefaultSummary])
                                @@ colleges
                /\ lastResponse' = [kind |-> "createCollege", college |-> c, action |-> "none",
                      status |-> 201]
  /\ UNCHANGED <<reviews, req, faults, reviewWrites, lastAgg, helper, applications, applicants>>

AdminResponse(kind, c, status) ==
  [kind |-> kind, college |-> c, action |-> "none", status |-> status]

\* PUT /api/colleges/:id: College.findByIdAndUpdate(id, req.body), the body carrying a
\* slug (slug # "") and, when sent, the object reviews
UpdateCollege(c, slug, sent, s) ==
  /\ Counted
  /\ IF c \notin DOMAIN colleges
     THEN /\ lastResponse' = AdminResponse("updateCollege", c, 404)
          /\ UNCHANGED colleges
     ELSE IF /\ slug # "" /\ slug # colleges[c].slug
             /\ \E d \in DOMAIN colleges : d # c /\ colleges[d].slug = slug
     THEN /\ lastResponse' = AdminResponse("updateCollege", c, 400)
          /\ UNCHANGED colleges
     ELSE /\ colleges' = [colleges EXCEPT
                            ![c].slug = IF slug # "" THEN slug ELSE @,
                            ![c].reviews = IF sent THEN s ELSE @]
          /\ lastResponse' = AdminResponse("updateCollege", c, 200)
  /\ UNCHANGED <<reviews, req, faults, reviewWrites, lastAgg, helper, applications, applicants>>

\* DELETE /api/colleges/:id: college.isActive = false; college.save()
DeleteCollege(c) ==
  /\ Counted
  /\ IF c \notin DOMAIN colleges
     THEN /\ lastResponse' = AdminResponse("deleteCollege", c, 404)
          /\ UNCHANGED colleges
     ELSE /\ colleges' = [colleges EXCEPT ![c].isActive = FALSE]
          /\ lastResponse' = AdminResponse("deleteCollege", c, 200)
  /\ UNCHANGED <<reviews, req, faults, reviewWrites, lastAgg, helper, applications, applicants>>

\* POST /api/colleges/:id/toggle-featured: college.featured = !college.featured
ToggleFeatured(c) ==
  /\ Counted
  /\ IF c \notin DOMAIN colleges
     THEN /\ lastResponse' = AdminResponse("toggleFeatured", c, 404)
          /\ UNCHANGED colleges
     ELSE /\ colleges' = [colleges EXCEPT ![c].featured = ~@]
          /\ lastResponse' = AdminResponse("toggleFeatured", c, 200)
  /\ UNCHANGED <<reviews, req, faults, reviewWrites, lastAgg, helper, applications, applicants>>

\* -------------------------------------------------------- specifications
\* the ratings a request body carries: two valid vectors and one out of range
RatingInputs == { Ratings(5, 5, 5, 5, 5, 5), Ratings(4, 3, 4, 2, 5, 1), BadRatings }

Step(p) ==
  \/ CreateFindOne(p)
  \/ CreateSave(p)
  \/ UpdateSave(p)
  \/ DeleteSave(p)
  \/ SaveFail(p)
  \/ AggRead(p)
  \/ AggReadFail(p)
  \/ AggWrite(p)
  \/ AggWriteFail(p)

\* overlapping create, update and soft-delete requests
NextCUD ==
  \/ \E p \in Procs : FreeSlot(p) /\ \E u \in Users, c \in CollegeIds, r \in RatingInputs :
       StartCreate(p, u, c, r)
  \/ \E p \in Procs : FreeSlot(p) /\ \E u \in Users, k \in RequestKeys, r \in RatingInputs :
       StartUpdate(p, u, k, TRUE, r)
  \/ \E p \in Procs : FreeSlot(p) /\ \E u \in Users, k \in RequestKeys :
       StartUpdate(p, u, k, FALSE, NoRatings)
  \/ \E p \in Procs : FreeSlot(p) /\ \E u \in Users, k \in RequestKeys : StartDelete(p, u, k)
  \/ \E p \in Procs : Step(p)

SpecCUD == Init /\ [][NextCUD]_vars

\* the review write routes, one request at a time
NextSeq ==
  \/ AllIdle /\ \E p \in Procs, u \in Users, c \in CollegeIds, r \in RatingInputs :
       StartCreate(p, u, c, r)
  \/ AllIdle /\ \E p \in Procs, u \in Users, k \in RequestKeys, r \in RatingInputs :
       StartUpdate(p, u, k, TRUE, r)
  \/ AllIdle /\ \E p \in Procs, u \in Users, k \in RequestKeys :
       StartUpdate(p, u, k, FALSE, NoRatings)
  \/ AllIdle /\ \E p \in Procs, u \in Users, k \in RequestKeys : StartDelete(p, u, k)
  \/ AllIdle /\ \E p \in Procs, k \in RequestKeys, a \in ModerateActions : StartModerate(p, k, a)
  \/ \E p \in Procs : Step(p)
  \/ \E p \in Procs : ModerateSave(p)

SpecSeq == Init /\ [][NextSeq]_vars

\* every route, requests overlapping
Next ==
  \/ \E p \in Procs : FreeSlot(p) /\ \E u \in Users, c \in CollegeIds, r \in RatingInputs :
       StartCreate(p, u, c, r)
  \/ \E p \in Procs : FreeSlot(p) /\ \E u \in Users, k \in RequestKeys, r \in RatingInputs :
       StartUpdate(p, u, k, TRUE, r)
  \/ \E p \in Procs : FreeSlot(p) /\ \E u \in Users, k \in RequestKeys :
       StartUpdate(p, u, k, FALSE, NoRatings)
  \/ \E p \in Procs : FreeSlot(p) /\ \E u \in Users, k \in RequestKeys : StartDelete(p, u, k)
  \/ \E p \in Procs : FreeSlot(p) /\ \E k \in RequestKeys, a \in ModerateActions :
       StartModerate(p, k, a)
  \/ \E p \in Procs : Step(p)
  \/ \E p \in Procs : ModerateSave(p)
  \/ \E slug \in SlugInputs, sent \in BOOLEAN : CreateCollege(slug, sent, SeedSummary(1))

Spec == Init /\ [][Next]_vars

\* the college admin routes, and the create review route that calls
\* updateCollegeRatings, one request at a time
NextAdmin ==
  \/ AllIdle /\ \E slug \in SlugInputs, sent \in BOOLEAN : CreateCollege(slug, sent, StaleSummary)
  \/ AllIdle /\ \E c \in CollegeIds, slug \in SlugInputs \cup {""}, sent \in BOOLEAN :
       UpdateCollege(c, slug, sent, StaleSummary)
  \/ AllIdle /\ \E c \in CollegeIds : DeleteCollege(c)
  \/ AllIdle /\ \E c \in CollegeIds : ToggleFeatured(c)
  \/ AllIdle /\ \E p \in Procs, u \in Users, c \in CollegeIds :
       StartCreate(p, u, c, Ratings(4, 3, 4, 2, 5, 1))
  \/ \E p \in Procs : CreateFindOne(p) \/ CreateSave(p) \/ AggRead(p) \/ AggWrite(p)

SpecAdmin == Init /\ [][NextAdmin]_vars

\* the read routes
Reads ==
  \/ \E c \in {AnyCollege} \cup CollegeIds, rating \in {0, 5} : ListReviews(c, rating)
  \/ \E c \in CollegeIds, rating \in {0, 5} : ListByCollege(c, rating)
  \/ \E k \in ReviewKeys : GetReview(k)
  \/ \E u \in Users : MyReviews(u)
  \/ AdminReported
  \/ \E slug \in { Slug(c) : c \in CollegeIds } : CollegeDetail(slug)

\* stored reviews of college 1, created with the schema defaults, the one of author 2
\* soft-deleted since
InitVotes ==
  /\ reviews = (<<1, 1>> :> NewReview(Ratings(5, 5, 5, 5, 5, 5)))
                 @@ (<<2, 1>> :> InactiveReview(Ratings(4, 3, 4, 2, 5, 1)))
  /\ colleges = [c \in 1..NumSeeded |-> [SeedCollege(c) EXCEPT !.reviews = DefaultSummary]]
  /\ req = [p \in Procs |-> IdleReq]
  /\ lastResponse = NoResponse
  /\ started = 0
  /\ overlaps = 0
  /\ faults = 0
  /\ reviewWrites = [c \in CollegeIds |-> 0]
  /\ lastAgg = [c \in CollegeIds |-> NoAgg]
  /\ helper = NoCall
  /\ applications = << >>
  /\ applicants = [u \in Users |-> << >>]

\* helpful votes, reports, moderation and reads, one request at a time
NextVotes ==
  \/ AllIdle /\ \E p \in Procs, u \in Users, k \in RequestKeys, h \in BOOLEAN :
       StartHelpful(p, u, k, h)
  \/ AllIdle /\ \E p \in Procs, u \in Users, k \in RequestKeys : StartReport(p, u, k)
  \/ AllIdle /\ \E p \in Procs, k \in RequestKeys, a \in ModerateActions : StartModerate(p, k, a)
  \/ \E p \in Procs : VoteSave(p)
  \/ \E p \in Procs : ModerateSave(p)
  \/ \E p \in Procs : SaveFail(p)
  \/ \E p \in Procs : AggRead(p)
  \/ \E p \in Procs : AggWrite(p)
  \/ AllIdle /\ Reads

SpecVotes == InitVotes /\ [][NextVotes]_vars

\* overlapping helpful votes and reports
NextVoteRace ==
  \/ \E p \in Procs, u \in Users, k \in RequestKeys : StartHelpful(p, u, k, TRUE)
  \/ \E p \in Procs, u \in Users, k \in RequestKeys : StartReport(p, u, k)
  \/ \E p \in Procs : VoteSave(p)
  \/ \E p \in Procs : SaveFail(p)

SpecVoteRace == InitVotes /\ [][NextVoteRace]_vars

\* the bodies of the create requests: ratings, title, content and, when the body
\* carries it, reported
Body(r, t, x, rep) == [ratings |-> r, title |-> t, content |-> x, reported |-> rep]
CreateBodies ==
  { Body(Ratings(5, 5, 5, 5, 5, 5), "great college", "padded", NoVotes),
    Body(Ratings(4, 3, 4, 2, 5, 1), "great college", "repeated", NoVotes),
    Body(Ratings(4, 3, 4, 2, 5, 1), "sooooo good", "plain", NoVotes),
    Body(Ratings(5, 5, 5, 5, 5, 5), "great college", "plain", [count |-> 1, users |-> <<>>]),
    Body(Ratings(5, 5, 5, 5, 5, 5), "hi", "plain", NoVotes),
    Body(Ratings(5, 5, 5, 5, 5, 5), "great college", "brief", NoVotes),
    Body(BadRatings, "great college", "plain", NoVotes) }

\* every review route, one request at a time
NextRoutes ==
  \/ AllIdle /\ \E p \in Procs, u \in Users, c \in CollegeIds, b \in CreateBodies :
       StartCreateBody(p, u, c, b.ratings, b.title, b.content, b.reported)
  \/ AllIdle /\ \E p \in Procs, u \in Users, k \in RequestKeys :
       StartUpdate(p, u, k, TRUE, Ratings(3, 4, 2, 5, 1, 3))
  \/ AllIdle /\ \E p \in Procs, u \in Users, k \in RequestKeys : StartDelete(p, u, k)
  \/ AllIdle /\ \E p \in Procs, k \in RequestKeys, a \in ModerateActions : StartModerate(p, k, a)
  \/ AllIdle /\ \E p \in Procs, u \in Users, k \in RequestKeys, h \in BOOLEAN :
       StartHelpful(p, u, k, h)
  \/ AllIdle /\ \E p \in Procs, u \in Users, k \in RequestKeys : StartReport(p, u, k)
  \/ \E p \in Procs : Step(p)
  \/ \E p \in Procs : ModerateSave(p)
  \/ \E p \in Procs : VoteSave(p)
  \/ AllIdle /\ Reads

SpecRoutes == Init /\ [][NextRoutes]_vars

\* ------------------------------------------------------------ properties
\* The summary the specification asks for, written out in integers from the
\* stored reviews: the count, round-half-up of ten times the mean of overall
\* over ten, and the plain means of the five breakdown fields.
ActiveKeys(c) ==
  { k \in DOMAIN reviews : reviews[k].isActive /\ k[2] = c }

RECURSIVE SumOf(_, _, _)
SumOf(ks, f, rv) ==
  IF ks = {} THEN 0
  ELSE LET k == CHOOSE j \in ks : TRUE IN rv[k].ratings[f] + SumOf(ks \ {k}, f, rv)

Same(x, n, d) == x.num * d = n * x.den

IsSummaryOf(s, ks, rv) ==
  LET n == Cardinality(ks) IN
  IF n = 0
  THEN /\ s.totalReviews = 0
       /\ s.averageRating.num = 0
       /\ \A f \in RatingFields : s.ratingBreakdown[f].num = 0
  ELSE /\ s.totalReviews = n
       /\ Same(s.averageRating, (20 * SumOf(ks, "overall", rv) + n) \div (2 * n), 10)
       /\ \A f \in RatingFields : Same(s.ratingBreakdown[f], SumOf(ks, f, rv), n)

MatchesActiveReviews(c) == IsSummaryOf(colleges[c].reviews, ActiveKeys(c), reviews)

\* the review set an execution of updateCollegeRatings read
SnapshotKeys(snap) == { x.key : x \in snap }
SnapshotReviews(snap) ==
  [k \in ReviewKeys |->
     IF k \in SnapshotKeys(snap)
     THEN [ratings |-> (CHOOSE x \in snap : x.key = k).ratings]
     ELSE [ratings |-> NoRatings]]
IsSummaryOfSnapshot(s, snap) == IsSummaryOf(s, SnapshotKeys(snap), SnapshotReviews(snap))

Succeeded == lastResponse.status \in {200, 201}

\* no review write request on college c is in progress
Quiescent(c) == \A p \in Procs : req[p].pc = "idle" \/ req[p].college # c

\* C1: when a review create, an update by the author or a soft-delete by the author,
\* run without overlapping another request, has returned success, the stored summary
\* of the review's college is the summary of exactly its active reviews.
C1_SummaryAfterReviewWrite ==
  (AllIdle /\ lastResponse.kind \in {"create", "update", "delete"} /\ Succeeded)
    => MatchesActiveReviews(lastResponse.college)

C1_Witness ==
  /\ AllIdle /\ lastResponse.kind = "delete" /\ Succeeded /\ started = 3
  /\ colleges[lastResponse.college].reviews.totalReviews = 1
  /\ \E k \in DOMAIN reviews : ~reviews[k].isActive /\ k[2] = lastResponse.college

\* C2: when a moderation request with action "remove", run without overlapping another
\* request, has completed, the stored summary of the review's college no longer counts
\* the removed review: it is the summary of the reviews that are then active.
C2_RemovedReviewNotCounted ==
  (AllIdle /\ lastResponse.kind = "moderate" /\ lastResponse.action = "remove" /\ Succeeded)
    => MatchesActiveReviews(lastResponse.college)

\* C3, as first stated: whenever no review write request on a college is in progress
\* (and updateCollegeRatings has written its summary, with no persistence error so far),
\* the stored summary is the summary of the college's active reviews.
C3_NeverStaysDiverged ==
  \A c \in DOMAIN colleges :
    (Quiescent(c) /\ lastAgg[c].written /\ faults = 0) => MatchesActiveReviews(c)

\* C3, amended: whenever no review write request on a college is in progress and the
\* execution of updateCollegeRatings that wrote last read the review set after the last
\* review write of that college, the stored summary is the summary of the college's
\* active reviews; otherwise it is the summary of the set that execution read.
C3_LastWriterSnapshot ==
  \A c \in DOMAIN colleges :
    (Quiescent(c) /\ lastAgg[c].written) =>
       /\ IsSummaryOfSnapshot(colleges[c].reviews, lastAgg[c].snapshot)
       /\ lastAgg[c].readAt = reviewWrites[c] => MatchesActiveReviews(c)

C3_Witness ==
  \E c \in DOMAIN colleges :
    /\ AllIdle /\ overlaps = 1 /\ faults = 0
    /\ lastAgg[c].written /\ lastAgg[c].readAt = 2 /\ reviewWrites[c] = 2
    /\ colleges[c].reviews.totalReviews = 2

\* C4: the triple updateCollegeRatings stored for a college is at every moment the
\* summary of the review set read by one execution, the one whose write came last:
\* the three fields are never a mix of two executions.
C4_OneExecutionsSummary ==
  \A c \in DOMAIN colleges :
    lastAgg[c].written =>
      /\ colleges[c].reviews.totalReviews = Cardinality(lastAgg[c].snapshot)
      /\ IsSummaryOfSnapshot(colleges[c].reviews, lastAgg[c].snapshot)

C4_Witness ==
  \E c \in DOMAIN colleges :
    /\ AllIdle /\ overlaps = 1 /\ faults = 0
    /\ lastAgg[c].written /\ lastAgg[c].readAt < reviewWrites[c]
    /\ ~MatchesActiveReviews(c)

\* C5: every college with stored totalReviews 0 has averageRating 0 and the five
\* ratingBreakdown fields 0.
C5_ZeroReviewsZeroSummary ==
  \A c \in DOMAIN colleges :
    colleges[c].reviews.totalReviews = 0 =>
       /\ colleges[c].reviews.averageRating.num = 0
       /\ \A f \in RatingFields : colleges[c].reviews.ratingBreakdown[f].num = 0

\* C6: after updateCollegeRatings(c) has completed, the stored totalReviews is the
\* number of reviews of college c with isActive true, which are the reviews it read;
\* reviews of other colleges and inactive reviews add nothing to any field.
C6_CountsActiveReviewsOfCollege ==
  \A c \in DOMAIN colleges :
    lastAgg[c].written =>
      /\ SnapshotKeys(lastAgg[c].snapshot) = ActiveKeys(c)
      /\ colleges[c].reviews.totalReviews =
           Cardinality({ k \in DOMAIN reviews : k[2] = c /\ reviews[k].isActive })
      /\ MatchesActiveReviews(c)

C6_Witness ==
  /\ lastAgg[1].written
  /\ colleges[1].reviews.totalReviews = 2
  /\ Cardinality({ k \in DOMAIN reviews : k[2] = 1 }) = 4
  /\ \E k \in DOMAIN reviews : k[2] = 1 /\ ~reviews[k].isActive
  /\ \E k \in DOMAIN reviews : k[2] # 1 /\ reviews[k].isActive

\* C7: for a non-empty set of active reviews with integer ratings in 1..5 the stored
\* averageRating is round-half-up of ten times the mean of overall, over ten (so ten
\* times it is an integer in 10..50), each breakdown field is the exact mean, and
\* overall ratings 5, 4, 3 give averageRating 4.0 with totalReviews 3.
C7_RoundedAverageExactBreakdown ==
  \A c \in DOMAIN colleges :
    (lastAgg[c].written /\ ActiveKeys(c) # {}) =>
      LET n == Cardinality(ActiveKeys(c))
          sum == SumOf(ActiveKeys(c), "overall", reviews)
          s == colleges[c].reviews
          a == s.averageRating
          t == (10 * a.num) \div a.den
      IN /\ (10 * a.num) % a.den = 0
         /\ t \in 10..50
         /\ 2 * n * t <= 20 * sum + n
         /\ 20 * sum + n < 2 * n * (t + 1)
         /\ \A f \in RatingFields :
              s.ratingBreakdown[f].num * n = SumOf(ActiveKeys(c), f, reviews) * s.ratingBreakdown[f].den
         /\ (n = 3 /\ { reviews[k].ratings.overall : k \in ActiveKeys(c) } = {5, 4, 3})
              => (a.num = 4 * a.den /\ s.totalReviews = 3)

\* four active reviews with overall 5, 4, 3, 3: the mean 3.75 is a tie, stored as 3.8
C7_Witness ==
  /\ lastAgg[1].written
  /\ Cardinality(ActiveKeys(1)) = 4
  /\ SumOf(ActiveKeys(1), "overall", reviews) = 15
  /\ colleges[1].reviews.averageRating = Rat(38, 10)

\* C8: updateCollegeRatings on a college with no active review stores averageRating 0,
\* totalReviews 0 and the five breakdown fields 0, whatever was stored before.
C8_EmptySetZeroSummary ==
  \A c \in DOMAIN colleges :
    (lastAgg[c].written /\ ActiveKeys(c) = {}) =>
      colleges[c].reviews =
        [averageRating |-> Zero, totalReviews |-> 0,
         ratingBreakdown |-> [academics |-> Zero, campusLife |-> Zero, facilities |-> Zero,
                              location |-> Zero, value |-> Zero]]

\* college 1 holds only inactive reviews and was recomputed; college 2, not recomputed,
\* still shows the summary both colleges started with
C8_Witness ==
  /\ lastAgg[1].written /\ ~lastAgg[2].written
  /\ ActiveKeys(1) = {}
  /\ \E k \in DOMAIN reviews : k[2] = 1
  /\ colleges[1].reviews.totalReviews = 0
  /\ colleges[2].reviews = StaleSummary

\* C9: a run of updateCollegeRatings that completes after an earlier completed run for
\* the same college, with no review of that college written since that run's read,
\* leaves the stored summary as the earlier run left it.
C9_SecondRunChangesNothing ==
  [][\A p \in Procs :
       LET c == req[p].college IN
       ( /\ req[p].pc = "aggWrite" /\ req'[p].pc = "idle" /\ faults' = faults
         /\ lastAgg[c].written
         /\ lastAgg[c].readAt = reviewWrites[c]
         /\ req[p].readAt = reviewWrites[c] )
       => colleges'[c].reviews = colleges[c].reviews]_vars

C9_Witness ==
  /\ started = 2 /\ faults = 0 /\ AllIdle
  /\ lastAgg[1].written /\ ~lastAgg[2].written
  /\ lastResponse = [kind |-> "recompute", college |-> 1, action |-> "none", status |-> 200]
  /\ colleges[1].reviews.totalReviews = 3
  /\ colleges[2].reviews = StaleSummary

\* C10: when the read or the write of updateCollegeRatings fails, the caller gets the
\* error and the stored summary is unchanged; and no step ever changes a stored summary
\* to anything but the complete summary of the active reviews.
C10_FailureLeavesSummary ==
  [][ /\ faults' # faults =>
           /\ colleges' = colleges
           /\ lastResponse'.status = 500
           /\ \A p \in Procs : req'[p] # req[p] => req'[p].pc = "idle"
      /\ \A c \in DOMAIN colleges :
           \/ colleges'[c].reviews = colleges[c].reviews
           \/ IsSummaryOf(colleges'[c].reviews, ActiveKeys(c), reviews) ]_vars

C10_Witness ==
  /\ faults = 1 /\ AllIdle
  /\ lastResponse = [kind |-> "recompute", college |-> 1, action |-> "none", status |-> 500]
  /\ ~lastAgg[1].written
  /\ ActiveKeys(1) # {}
  /\ colleges[1].reviews = StaleSummary

\* C11: the stored summary of a college changes only in the step where
\* updateCollegeRatings writes it, and a college is created with the schema defaults
\* in it: the college create, update, soft-delete and toggle-featured routes never
\* change it and never take it from the request.
C11_OnlyAggregatorWritesSummary ==
  [][ /\ \A c \in DOMAIN colleges :
           colleges'[c].reviews # colleges[c].reviews =>
             \E p \in Procs : /\ req[p].pc = "aggWrite" /\ req[p].college = c
                               /\ req'[p].pc # "aggWrite"
      /\ \A c \in DOMAIN colleges' \ DOMAIN colleges :
           colleges'[c].reviews = DefaultSummary ]_vars

\* C12: the review collection holds at most one document for a (user, college) pair:
\* a document is inserted only for a pair that has none, one at a time, and a create
\* request that finds or hits a document of its pair, active or not, ends with an
\* error and leaves the collection as it was; also when two requests overlap.
C12_OneReviewPerPair ==
  [][ /\ \A p \in Procs :
           ( /\ req[p].kind = "create" /\ req[p].pc \in {"findOne", "save"}
             /\ req'[p] # req[p]
             /\ req[p].rid \in DOMAIN reviews )
           => /\ reviews' = reviews
              /\ req'[p].pc = "idle"
              /\ lastResponse'.kind = "create" /\ lastResponse'.status \in {400, 500}
      /\ \A p \in Procs :
           (req[p].kind = "create" /\ req[p].pc = "save" /\ req'[p].pc = "aggRead")
           => /\ req[p].rid \notin DOMAIN reviews
              /\ DOMAIN reviews' = DOMAIN reviews \cup {req[p].rid}
      /\ DOMAIN reviews \subseteq DOMAIN reviews'
      /\ Cardinality(DOMAIN reviews') <= Cardinality(DOMAIN reviews) + 1 ]_vars

\* two overlapping create requests of one user for one college: one review is stored
\* and the request that saved second got the duplicate key error
C12_Witness ==
  /\ overlaps = 1 /\ faults = 0 /\ started = 2 /\ AllIdle
  /\ lastResponse.kind = "create" /\ lastResponse.status = 500
  /\ Cardinality(DOMAIN reviews) = 1
  /\ \E k \in DOMAIN reviews : k[2] = lastResponse.college

\* the entries of a sequence, and a sequence without a repeated entry
Entries(q) == { q[i] : i \in 1..Len(q) }
NoRepeat(q) == Cardinality(Entries(q)) = Len(q)

\* the helpful request of slot p completes in this step
HelpfulCompletes(p) ==
  req[p].kind = "helpful" /\ req[p].pc = "save" /\ req'[p].pc = "idle" /\ faults' = faults

\* C13: for reviews created with the default counters, after any sequence of helpful
\* requests run one at a time, helpful.count is the number of entries of helpful.users,
\* no user is in helpful.users twice and helpful.count is not negative; a helpful vote
\* of a user who has voted and a not-helpful vote of a user who has not change nothing,
\* a first helpful vote adds the user and one to the count, and taking a vote back
\* removes the user and takes one from the count.
C13_HelpfulCountIsVoters ==
  /\ [](\A k \in DOMAIN reviews :
          /\ reviews[k].helpful.count = Len(reviews[k].helpful.users)
          /\ NoRepeat(reviews[k].helpful.users)
          /\ reviews[k].helpful.count >= 0)
  /\ [][\A p \in Procs : HelpfulCompletes(p) =>
          LET k == req[p].rid
              u == req[p].user
              voted == u \in Entries(reviews[k].helpful.users)
          IN /\ (req[p].helpful = voted) => reviews' = reviews
             /\ (req[p].helpful /\ ~voted) =>
                   /\ reviews'[k].helpful.count = reviews[k].helpful.count + 1
                   /\ Entries(reviews'[k].helpful.users) =
                        Entries(reviews[k].helpful.users) \cup {u}
             /\ (~req[p].helpful /\ voted) =>
                   /\ reviews'[k].helpful.count = reviews[k].helpful.count - 1
                   /\ Entries(reviews'[k].helpful.users) =
                        Entries(reviews[k].helpful.users) \ {u}]_vars

\* users 1 and 2 voted helpful, then user 1 took the vote back
C13_Witness ==
  /\ AllIdle /\ started = 3 /\ faults = 0
  /\ lastResponse.kind = "helpful" /\ lastResponse.status = 200
  /\ reviews[<<1, 1>>].helpful = [count |-> 1, users |-> <<2>>]
  /\ reviewWrites[1] = 3

ReadKinds == {"list", "byCollege", "get", "myReviews", "reported", "college"}

\* C18: no read route (list, by-college list, single review, my-reviews, admin reported
\* list, college detail) returns a review with isActive false; a helpful or report
\* request on a review that is inactive is answered 404 and starts nothing, and no
\* step changes the votes of an inactive review or, moderation apart, its reports.
C18_InactiveNeverReturned ==
  /\ [](lastResponse.kind \in ReadKinds =>
          /\ \A d \in lastResponse.data : d.isActive
          /\ lastResponse.status = 404 => lastResponse.data = {})
  /\ [][ /\ \A p \in Procs, u \in Users, k \in DOMAIN reviews :
              ( /\ ~reviews[k].isActive
                /\ \/ StartReport(p, u, k)
                   \/ \E h \in BOOLEAN : StartHelpful(p, u, k, h) )
              => /\ lastResponse'.status = 404
                 /\ lastResponse'.kind \in {"helpful", "report"}
                 /\ reviews' = reviews /\ req' = req
         /\ \A k \in DOMAIN reviews :
              ~reviews[k].isActive =>
                /\ reviews'[k].helpful = reviews[k].helpful
                /\ reviews'[k].reported # reviews[k].reported =>
                     \E p \in Procs : req[p].kind = "moderate" /\ req[p].rid = k ]_vars

\* the second request, the by-college list of college 1, returned its active review
\* and not the inactive one
C18_Witness ==
  /\ lastResponse.kind = "byCollege" /\ lastResponse.college = 1
  /\ lastResponse.data = {[key |-> <<1, 1>>, isActive |-> TRUE]}
  /\ ~reviews[<<2, 1>>].isActive
  /\ started = 2 /\ reviewWrites[1] = 0

\* the report request, the moderation request of slot p completes in this step
ReportCompletes(p) ==
  req[p].kind = "report" /\ req[p].pc = "save" /\ req'[p].pc = "idle" /\ faults' = faults
ModerationCompletes(p) ==
  req[p].kind = "moderate" /\ req[p].pc = "save" /\ req'[p].pc = "idle" /\ faults' = faults

\* C14: when a report request on a review has completed, reported.count is the number
\* of entries of reported.users, which holds the reporter and no user twice; a report
\* by a user who has reported the review is answered 400 and changes nothing; when a
\* moderation request with action "approve" has completed, the count is 0 and the
\* list is empty.
C14_ReportedCountIsReporters ==
  [][ /\ \A p \in Procs : ReportCompletes(p) =>
           LET after == reviews'[req[p].rid].reported
           IN /\ after.count = Len(after.users)
              /\ NoRepeat(after.users)
              /\ req[p].user \in Entries(after.users)
      /\ \A p \in Procs, u \in Users, k \in DOMAIN reviews :
           (StartReport(p, u, k) /\ reviews[k].isActive
              /\ u \in Entries(reviews[k].reported.users))
           => /\ lastResponse'.status = 400 /\ lastResponse'.kind = "report"
              /\ reviews' = reviews /\ req' = req
      /\ \A p \in Procs : (ModerationCompletes(p) /\ req[p].action = "approve") =>
           reviews'[req[p].rid].reported = [count |-> 0, users |-> <<>>] ]_vars

\* C15: every stored review, all of them created through the create review route, has
\* a title and a content that validateReviewContent accepts.
C15_StoredContentIsValid ==
  \A k \in DOMAIN reviews :
    validateReviewContent(TextOf(reviews[k].content), TextOf(reviews[k].title)).isValid

\* the fields of a review its author may edit
Editable(rv) == [ratings |-> rv.ratings, title |-> rv.title, content |-> rv.content]

\* C16: the author-editable fields of a review change only in the save of an update
\* request made by the review's author; an update or a delete request by any other
\* user is answered 404 and leaves the reviews and the college summaries as they were;
\* the save of a moderation request changes nothing but isActive and reported.
C16_OnlyAuthorEdits ==
  [][ /\ \A k \in DOMAIN reviews :
           Editable(reviews'[k]) # Editable(reviews[k]) =>
             \E p \in Procs : /\ req[p].kind = "update" /\ req[p].pc = "save"
                               /\ req[p].rid = k /\ req[p].user = k[1]
      /\ \A k \in DOMAIN reviews :
           reviews'[k].isActive # reviews[k].isActive =>
             \E p \in Procs : /\ req[p].rid = k /\ req[p].pc = "save"
                               /\ \/ req[p].kind = "delete" /\ req[p].user = k[1]
                                  \/ req[p].kind = "moderate" /\ req[p].action = "remove"
      /\ \A p \in Procs, u \in Users, k \in DOMAIN reviews :
           ( /\ u # k[1]
             /\ \/ StartDelete(p, u, k)
                \/ StartUpdate(p, u, k, TRUE, Ratings(3, 4, 2, 5, 1, 3)) )
           => /\ lastResponse'.status = 404
              /\ lastResponse'.kind \in {"update", "delete"}
              /\ reviews' = reviews /\ colleges' = colleges /\ req' = req
      /\ \A p \in Procs : ModerationCompletes(p) =>
           \A k \in DOMAIN reviews :
             reviews'[k] = [reviews[k] EXCEPT !.isActive = reviews'[k].isActive,
                                              !.reported = reviews'[k].reported] ]_vars

\* user 1 created a review, an update by user 2 was refused, the author's update changed
\* the ratings
C16_Witness ==
  /\ AllIdle /\ started = 3
  /\ lastResponse.kind = "update" /\ lastResponse.status = 200
  /\ <<1, 1>> \in DOMAIN reviews
  /\ reviews[<<1, 1>>].ratings = Ratings(3, 4, 2, 5, 1, 3)
  /\ reviewWrites[1] = 2
  /\ colleges[1].reviews.averageRating = Num(3)

\* C17: no step of a review route removes a review document: every stored review stays
\* stored; the save of the author's delete request changes nothing of the document but
\* isActive, which it sets to false, and goes on to updateCollegeRatings for the
\* review's college.
C17_ReviewsAreNeverRemoved ==
  [][ /\ DOMAIN reviews \subseteq DOMAIN reviews'
      /\ \A p \in Procs :
           (req[p].kind = "delete" /\ req[p].pc = "save" /\ faults' = faults) =>
             LET k == req[p].rid
             IN /\ k \in DOMAIN reviews'
                /\ ~reviews'[k].isActive
                /\ reviews' = [reviews EXCEPT ![k].isActive = FALSE]
                /\ req'[p].pc = "aggRead" /\ req'[p].college = k[2] ]_vars

\* the author's delete request has completed: the review is stored, inactive, and the
\* summary of its college was recomputed without it
C17_Witness ==
  /\ AllIdle /\ lastResponse.kind = "delete" /\ lastResponse.status = 200
  /\ \E k \in DOMAIN reviews :
       /\ ~reviews[k].isActive /\ k[2] = lastResponse.college
       /\ lastAgg[k[2]].written /\ lastAgg[k[2]].readAt = 2
       /\ colleges[k[2]].reviews.totalReviews = 0

\* ------------------------------------------------- double-precision Numbers
\* calculateReviewScore multiplies by 0.3, 0.2, 0.15, 0.1, which binary floating point
\* does not hold exactly, so its Numbers are kept as the IEEE-754 doubles they are:
\* a sign and a magnitude, the magnitude a multiple of 2^-56 below 2^7 written as
\* <<integer part, four fraction limbs of 14 bits>>, and every operation rounds its
\* exact result to 53 significant bits, a tie going to the even neighbour. Every
\* Number the function forms from ratings in 1..5, the counts of the model and a
\* content of 13 characters or more is 0 or has its leading bit at 2^-4 or above,
\* hence is such a multiple.
Limb == 2^14
LimbIndex == 1..5

RECURSIVE BitLength(_)
BitLength(n) == IF n = 0 THEN 0 ELSE 1 + BitLength(n \div 2)

\* carries (or borrows) from the last limb upwards; the integer part takes the last one
RECURSIVE Carry(_, _, _)
Carry(d, j, c) ==
  IF j = 1 THEN [d EXCEPT ![1] = d[1] + c]
  ELSE Carry([d EXCEPT ![j] = (d[j] + c) % Limb], j - 1, (d[j] + c) \div Limb)

Normal(d) == Carry(d, 5, 0)

NoMagnitude == <<0, 0, 0, 0, 0>>

MagLE(a, b) ==
  \A j \in LimbIndex : (\A i \in 1..(j - 1) : a[i] = b[i]) => a[j] <= b[j]

\* the number of bits of a magnitude, counted from the bit 2^-56
Bits(d) ==
  IF d[1] > 0 THEN 56 + BitLength(d[1])
  ELSE IF d[2] > 0 THEN 42 + BitLength(d[2])
  ELSE IF d[3] > 0 THEN 28 + BitLength(d[3])
  ELSE IF d[4] > 0 THEN 14 + BitLength(d[4])
  ELSE BitLength(d[5])

\* round to nearest, ties to even: the exact magnitude is d + (rem / den) * 2^-56
\* with 0 <= rem < den; the s bits beyond the 53rd are dropped
RoundToNearest(d, rem, den) ==
  LET s == Bits(d) - 53
      unit == 2^s
      low == d[5] % unit
      up == IF s <= 0
            THEN 2 * rem > den \/ (2 * rem = den /\ d[5] % 2 = 1)
            ELSE \/ 2 * low > unit
                 \/ 2 * low = unit /\ (rem > 0 \/ (d[5] \div unit) % 2 = 1)
      kept == IF s <= 0 THEN d ELSE [d EXCEPT ![5] = d[5] - low]
  IN IF up THEN Normal([kept EXCEPT ![5] = @ + (IF s <= 0 THEN 1 ELSE unit)])
     ELSE kept

Double(neg, mag) == [neg |-> neg /\ mag # NoMagnitude, mag |-> mag]

FromInt(k) == Double(FALSE, <<k, 0, 0, 0, 0>>)

\* long division of n * 2^56 by d, limb by limb
RECURSIVE LongDivide(_, _, _, _)
LongDivide(q, j, r, d) ==
  IF j > 5 THEN [mag |-> q, rem |-> r]
  ELSE LET cur == r * Limb + q[j]
       IN LongDivide([q EXCEPT ![j] = cur \div d], j + 1, cur % d, d)

\* n / d for integers n >= 0 and d > 0: the quotient of two Numbers, and the value
\* of the decimal literal with that quotient
Divide(n, d) ==
  LET x == LongDivide(<<n, 0, 0, 0, 0>>, 1, 0, d)
  IN Double(FALSE, RoundToNearest(x.mag, x.rem, d))

\* the decimal literals of calculateReviewScore
Dot3 == Divide(3, 10)
Dot2 == Divide(2, 10)
Dot15 == Divide(15, 100)
Dot1 == Divide(1, 10)
Dot5 == Divide(5, 10)

\* k * x for an integer k >= 0
Times(k, x) ==
  Double(x.neg, RoundToNearest(Normal([j \in LimbIndex |-> k * x.mag[j]]), 0, 1))

Plus(x, y) ==
  IF x.neg = y.neg
  THEN Double(x.neg, RoundToNearest(Normal([j \in LimbIndex |-> x.mag[j] + y.mag[j]]), 0, 1))
  ELSE IF MagLE(y.mag, x.mag)
  THEN Double(x.neg, RoundToNearest(Normal([j \in LimbIndex |-> x.mag[j] - y.mag[j]]), 0, 1))
  ELSE Double(y.neg, RoundToNearest(Normal([j \in LimbIndex |-> y.mag[j] - x.mag[j]]), 0, 1))

Minus(x, y) == Plus(x, Double(~y.neg, y.mag))

LessOrEqual(x, y) ==
  IF x.neg # y.neg THEN x.neg
  ELSE IF x.neg THEN MagLE(y.mag, x.mag) ELSE MagLE(x.mag, y.mag)

MathMin(x, y) == IF LessOrEqual(x, y) THEN x ELSE y
MathMax(x, y) == IF LessOrEqual(x, y) THEN y ELSE x

\* Math.round of a Number: floor(x + 0.5), an integer
MathRoundDouble(x) ==
  LET frac == <<0, x.mag[2], x.mag[3], x.mag[4], x.mag[5]>>
      half == <<0, Limb \div 2, 0, 0, 0>>
  IN IF x.neg THEN 0 - (x.mag[1] + (IF MagLE(frac, half) THEN 0 ELSE 1))
     ELSE x.mag[1] + (IF MagLE(half, frac) THEN 1 ELSE 0)

\* ------------------------------------------------------ calculateReviewScore
\* the part of a review the function reads
ScoredReview(r, h, rep, content, pros, cons) ==
  [ratings |-> r, helpful |-> [count |-> h], reported |-> [count |-> rep],
   content |-> content, pros |-> pros, cons |-> cons]

ratingScore(ratings) ==
  Plus(Plus(Plus(Plus(Plus(Times(ratings.overall, Dot3),
                           Times(ratings.academics, Dot2)),
                      Times(ratings.campusLife, Dot15)),
                 Times(ratings.facilities, Dot15)),
            Times(ratings.location, Dot1)),
       Times(ratings.value, Dot1))

\* faulty variant: no cap on the boost
helpfulBoostUncapped(helpful) == Times(helpful.count, Dot1)

helpfulBoost(helpful) == MathMin(Times(helpful.count, Dot1), FromInt(2))

\* faulty variant: no cap on the penalty
reportPenaltyUncapped(reported) == Times(reported.count, Dot5)

reportPenalty(reported) == MathMin(Times(reported.count, Dot5), FromInt(3))

\* review[field]?.length || 0: a field the record does not carry is undefined
LengthOrZero(review, field) ==
  IF field \in DOMAIN review THEN Len(review[field]) ELSE 0

contentScore(review) ==
  LET contentLength == TextLength[review.content]
      prosConsCount == LengthOrZero(review, "pros") + LengthOrZero(review, "cons")
  IN MathMin(Plus(Divide(contentLength, 200), Times(prosConsCount, Dot2)),
             FromInt(1))

finalScore(review) ==
  MathMax(FromInt(0),
          Plus(Minus(Plus(ratingScore(review.ratings), helpfulBoost(review.helpful)),
                     reportPenalty(review.reported)),
               contentScore(review)))

\* Math.round(finalScore * 10) / 10: an integer number of tenths over 10. The
\* quotient is the double nearest to that decimal, which grows with the number of
\* tenths, so the decimal stands for it.
\* A missing helpful or reported makes helpful.count, reported.count throw
\* a TypeError.
calculateReviewScore(review) ==
  IF "helpful" \notin DOMAIN review \/ "reported" \notin DOMAIN review THEN TypeError
  ELSE Rat(MathRoundDouble(Times(10, finalScore(review))), 10)

\* ------------------------------------------------------- getReviewSentiment
Sum(ratings) ==
  ratings.overall + ratings.academics + ratings.campusLife + ratings.facilities
    + ratings.location + ratings.value

\* faulty variant: the recommendation is not looked at
SentimentOfRatings(review) ==
  LET averageRating == Divide(Sum(review.ratings), 6)
      prosCount == LengthOrZero(review, "pros")
      consCount == LengthOrZero(review, "cons")
  IN IF LessOrEqual(FromInt(4), averageRating) /\ prosCount > consCount
     THEN "positive"
     ELSE IF LessOrEqual(averageRating, FromInt(2)) /\ consCount > prosCount
     THEN "negative"
     ELSE "neutral"

getReviewSentiment(review) ==
  LET averageRating == Divide(Sum(review.ratings), 6)
      prosCount == LengthOrZero(review, "pros")
      consCount == LengthOrZero(review, "cons")
  IN IF /\ LessOrEqual(FromInt(4), averageRating)
        /\ review.wouldRecommend
        /\ prosCount > consCount
     THEN "positive"
     ELSE IF /\ LessOrEqual(averageRating, FromInt(2))
             /\ ~review.wouldRecommend
             /\ consCount > prosCount
     THEN "negative"
     ELSE "neutral"


\* ------------------------------------------------------- scoring a review
MaxHelpful == 25
MaxReported == 7

Strings(n) == [i \in 1..n |-> "x"]

ScoreRatings ==
  { Ratings(5, 5, 5, 5, 5, 5), Ratings(1, 1, 1, 1, 1, 1), Ratings(1, 1, 1, 2, 2, 2),
    Ratings(1, 1, 1, 1, 1, 4), Ratings(3, 1, 4, 3, 3, 3), Ratings(4, 3, 4, 2, 5, 1) }

\* reviews nobody voted on or reported yet
ScoreInputs ==
  { ScoredReview(r, 0, 0, x, Strings(pc[1]), Strings(pc[2])) :
      r \in ScoreRatings, x \in {"plain", "shortwords", "essay"},
      pc \in {<<0, 0>>, <<1, 0>>, <<3, 1>>} }

Score(review) ==
  [fn |-> "calculateReviewScore", review |-> review,
   result |-> calculateReviewScore(review)]

Unscored == UNCHANGED <<reviews, colleges, req, lastResponse, started, faults, overlaps,
                        reviewWrites, lastAgg, applications, applicants>>

\* calculateReviewScore(review)
CallScore(review) ==
  /\ helper = NoCall
  /\ helper' = Score(review)
  /\ Unscored

\* the same review scored again after one more helpful vote
ScoreMoreHelpful ==
  /\ helper.fn = "calculateReviewScore"
  /\ helper.review.helpful.count < MaxHelpful
  /\ helper' = Score([helper.review EXCEPT !.helpful.count = @ + 1])
  /\ Unscored

\* the same review scored again after one more report
ScoreMoreReported ==
  /\ helper.fn = "calculateReviewScore"
  /\ helper.review.reported.count < MaxReported
  /\ helper' = Score([helper.review EXCEPT !.reported.count = @ + 1])
  /\ Unscored

NextScore ==
  \/ \E review \in ScoreInputs : CallScore(review)
  \/ ScoreMoreHelpful
  \/ ScoreMoreReported

SpecScore == Init /\ [][NextScore]_vars

\* ----- the score as the formula of real numbers, in two-hundredths
Least(a, b) == IF a <= b THEN a ELSE b

\* 100 * W
Weighted(ratings) ==
  30 * ratings.overall + 20 * ratings.academics + 15 * ratings.campusLife
    + 15 * ratings.facilities + 10 * ratings.location + 10 * ratings.value

\* 200 * max(0, W + min(0.1 h, 2) - min(0.5 r, 3) + min(L / 200 + 0.2 (p + c), 1))
Exact(review) ==
  LET sum == 2 * Weighted(review.ratings)
               + Least(20 * review.helpful.count, 400)
               - Least(100 * review.reported.count, 600)
               + Least(TextLength[review.content]
                         + 40 * (Len(review.pros) + Len(review.cons)), 200)
  IN IF sum < 0 THEN 0 ELSE sum

\* a score in tenths
Tenths(x) == (x.num * 10) \div x.den

SpecExample == ScoredReview(Ratings(5, 5, 5, 5, 5, 5), 25, 0, "essay", Strings(3), Strings(1))

\* C19 as stated: calculateReviewScore returns the real-number value
\* max(0, W + min(0.1 h, 2) - min(0.5 r, 3) + min(L/200 + 0.2 (p + c), 1)) rounded to
\* one decimal, a value midway between two tenths going up.
C19_ScoreIsRoundedFormula ==
  helper.fn = "calculateReviewScore" =>
    helper.result = Rat(MathRound(Rat(Exact(helper.review), 20)), 10)

\* C19: calculateReviewScore returns a tenth nearest to the real-number value of the
\* formula: the value rounded to one decimal whenever it is not midway between two
\* tenths, and one of the two neighbouring tenths when it is; W, as a real number and
\* as the code adds it up, lies in [1, 5]; the result lies in [0, 8]; the spec's
\* example (all ratings 5, helpful 25, reported 0, L = 300, 3 pros, 1 con) gives 8.0.
C19_ScoreIsNearestTenth ==
  helper.fn = "calculateReviewScore" =>
    LET review == helper.review
        t == Tenths(helper.result)
        W == ratingScore(review.ratings)
    IN /\ helper.result = Rat(t, 10)
       /\ 20 * t - Exact(review) <= 10
       /\ Exact(review) - 20 * t <= 10
       /\ (Exact(review) % 20 # 10 =>
             t = MathRound(Rat(Exact(review), 20)))
       /\ Weighted(review.ratings) \in 100..500
       /\ LessOrEqual(FromInt(1), W) /\ LessOrEqual(W, FromInt(5))
       /\ t \in 0..80
       /\ (review = SpecExample => helper.result = Num(8))

\* the spec's example was scored, reached by 25 helpful votes on a review scored first
\* without votes: 5 + 2 - 0 + 1
C19_Witness ==
  /\ helper.fn = "calculateReviewScore"
  /\ helper.review = SpecExample
  /\ helper.result = Num(8)

\* C20: one more helpful vote never lowers the score and one more report never raises
\* it, every other input being the same; the score of a review with 20 helpful votes
\* or more is its score with 20, and the score of a review with 6 reports or more is
\* its score with 6.
C20_ScoreMonotoneInVotesAndReports ==
  /\ [](helper.fn = "calculateReviewScore" =>
          LET review == helper.review
          IN /\ review.helpful.count >= 20 =>
                  helper.result
                    = calculateReviewScore([review EXCEPT !.helpful.count = 20])
             /\ review.reported.count >= 6 =>
                  helper.result
                    = calculateReviewScore([review EXCEPT !.reported.count = 6]))
  /\ [][ (helper.fn = "calculateReviewScore" /\ helper'.fn = "calculateReviewScore") =>
           LET review == helper.review
           IN /\ helper'.review = [review EXCEPT !.helpful.count = @ + 1] =>
                   Tenths(helper'.result) >= Tenths(helper.result)
              /\ helper'.review = [review EXCEPT !.reported.count = @ + 1] =>
                   Tenths(helper'.result) <= Tenths(helper.result) ]_vars

\* a review with 21 helpful votes and 7 reports was scored, above the floor of 0 and
\* below its score before the votes and the reports
C20_Witness ==
  /\ helper.fn = "calculateReviewScore"
  /\ helper.review.helpful.count = 21 /\ helper.review.reported.count = 7
  /\ Tenths(helper.result) > 0
  /\ Tenths(helper.result)
       < Tenths(calculateReviewScore([helper.review EXCEPT !.helpful.count = 0,
                                                           !.reported.count = 0]))


\* ------------------------------------------- calls of the review helpers
OptionalFields == {"pros", "cons", "helpful", "reported"}

\* a review snapshot as a caller hands it over; the fields in missing are undefined
Snapshot(r, w, pros, cons, missing) ==
  LET review == [ratings |-> r, wouldRecommend |-> w, content |-> "plain",
                 helpful |-> [count |-> 3], reported |-> [count |-> 1],
                 pros |-> pros, cons |-> cons]
  IN [f \in DOMAIN review \ missing |-> review[f]]

SnapshotRatings ==
  { Ratings(5, 5, 5, 5, 5, 5), Ratings(4, 4, 4, 4, 4, 4), Ratings(4, 4, 4, 4, 4, 3),
    Ratings(4, 3, 4, 2, 5, 1), Ratings(2, 2, 2, 2, 2, 3), Ratings(2, 2, 2, 2, 2, 2),
    Ratings(1, 1, 1, 1, 1, 1) }

Snapshots ==
  { Snapshot(r, w, Strings(p), Strings(c), missing) :
      r \in SnapshotRatings, w \in BOOLEAN, p \in 0..2, c \in 0..2,
      missing \in SUBSET OptionalFields }

\* getReviewSentiment(review)
CallSentiment(review) ==
  /\ helper = NoCall
  /\ helper' = [fn |-> "getReviewSentiment", review |-> review,
                result |-> getReviewSentiment(review)]
  /\ Unscored

\* the arguments of a validateReviewContent call: an argument the record does not
\* carry was not passed
Arguments ==
  { [content |-> x, title |-> t] : x \in TextIds, t \in TextIds }
    \cup { [content |-> x] : x \in TextIds }
    \cup { [title |-> t] : t \in TextIds }
    \cup { << >> }

Argument(args, name) == IF name \in DOMAIN args THEN TextOf(args[name]) ELSE Undefined

\* validateReviewContent(content, title)
CallValidate(args) ==
  /\ helper = NoCall
  /\ helper' = [fn |-> "validateReviewContent", args |-> args,
                result |-> validateReviewContent(Argument(args, "content"),
                                                 Argument(args, "title"))]
  /\ Unscored

NextHelpers ==
  \/ \E review \in Snapshots : CallScore(review)
  \/ \E review \in Snapshots : CallSentiment(review)
  \/ \E args \in Arguments : CallValidate(args)

SpecHelpers == Init /\ [][NextHelpers]_vars

\* the number of entries of a list a snapshot may not carry
Count(review, field) == IF field \in DOMAIN review THEN Len(review[field]) ELSE 0

\* C21: getReviewSentiment returns 'positive' exactly when the mean of the six ratings
\* is at least 4 (their sum at least 24), wouldRecommend is true and there are more
\* pros than cons; otherwise 'negative' exactly when the mean is at most 2 (the sum at
\* most 12), wouldRecommend is false and there are more cons than pros; otherwise
\* 'neutral'. The two conditions never hold together; a missing list has no entries.
C21_SentimentByMeanRecommendationAndLists ==
  helper.fn = "getReviewSentiment" =>
    LET review == helper.review
        sum == Sum(review.ratings)
        p == Count(review, "pros")
        c == Count(review, "cons")
        positive == sum >= 24 /\ review.wouldRecommend /\ p > c
        negative == sum <= 12 /\ ~review.wouldRecommend /\ c > p
    IN /\ ~(positive /\ negative)
       /\ helper.result = "positive" <=> positive
       /\ helper.result = "negative" <=> negative
       /\ helper.result = "neutral" <=> ~positive /\ ~negative
       /\ helper.result \in {"positive", "negative", "neutral"}

\* a review with a mean of exactly 2, not recommended, one con and no pros list came
\* out 'negative'
C21_Witness ==
  /\ helper.fn = "getReviewSentiment"
  /\ helper.result = "negative"
  /\ helper.review.ratings = Ratings(2, 2, 2, 2, 2, 2)
  /\ "pros" \notin DOMAIN helper.review
  /\ "cons" \in DOMAIN helper.review /\ Len(helper.review.cons) = 1

\* the snapshot with every missing optional field put in as empty or zero
Completed(review) ==
  [f \in DOMAIN review \cup OptionalFields |->
     IF f \in DOMAIN review THEN review[f]
     ELSE IF f \in {"pros", "cons"} THEN <<>> ELSE [count |-> 0]]

\* C22: calculateReviewScore and getReviewSentiment of a snapshot with a missing pros,
\* cons, helpful or reported do not fail and return what they return for the
\* snapshot with the missing lists empty and the missing counts zero.
C22_MissingFieldsCountAsEmpty ==
  /\ helper.fn = "calculateReviewScore" =>
       /\ helper.result # TypeError
       /\ helper.result = calculateReviewScore(Completed(helper.review))
  /\ helper.fn = "getReviewSentiment" =>
       helper.result = getReviewSentiment(Completed(helper.review))


SpamError == "Content appears to be spam"
WordsError == "Review must contain at least 20 meaningful words"
LanguageError == "Review contains inappropriate language"

\* C23: validateReviewContent never throws, a missing title or content included, and
\* returns {isValid, errors} with isValid true exactly when errors is empty.
C23_ValidatorAlwaysReturnsAResult ==
  helper.fn = "validateReviewContent" =>
    /\ helper.result # TypeError
    /\ DOMAIN helper.result = {"isValid", "errors"}
    /\ helper.result.isValid <=> helper.result.errors = <<>>

\* a validateReviewContent call that was passed both arguments
Validated(x, t) ==
  /\ helper.fn = "validateReviewContent"
  /\ helper.args = [content |-> x, title |-> t]

Copies(n, message) == [i \in 1..n |-> message]

\* C24: the errors of validateReviewContent are one 'Content appears to be spam' for
\* each of the three spam patterns that matches the title or the content, then the
\* word-count message if that rule triggers, then the language message if the
\* denylist rule triggers: nothing is deduplicated and no rule suppresses another.
C24_ErrorsInRuleOrder ==
  \A x \in TextIds, t \in TextIds :
    Validated(x, t) =>
      LET content == TextOf(x)
          title == TextOf(t)
          k == Cardinality({ n \in 1..3 : \/ PatternTest(SpamPatterns[n], content)
                                          \/ PatternTest(SpamPatterns[n], title) })
          few == MeaningfulWords(content) < 20
          denied == \E w \in ProfanityWords :
                      LowerIncludes(content, w) \/ LowerIncludes(title, w)
          errors == helper.result.errors
      IN /\ errors = Copies(k, SpamError)
                       \o (IF few THEN <<WordsError>> ELSE <<>>)
                       \o (IF denied THEN <<LanguageError>> ELSE <<>>)
         /\ x = "AAAAAA this is great" /\ t = "great college" =>
              errors = <<SpamError, WordsError>>
         /\ x = "AAAAA BUY NOW!!! TODAY" /\ t = "great college" =>
              errors = <<SpamError, SpamError, SpamError, WordsError>>
         /\ x = "repeated" /\ t = "sooooo good" => errors = <<SpamError, WordsError>>
         /\ x = "plain" /\ t = "AAAAA BUY NOW!!! TODAY" =>
              errors = <<SpamError, SpamError, SpamError>>
         /\ x = "profane" /\ t = "sooooo good" => errors = <<SpamError, LanguageError>>
         /\ x = "plain" /\ t = "great college" => errors = <<>>

\* the spec's scenario: the repeated-character run gave the spam error although the
\* word count gave its own
C24_Witness ==
  /\ Validated("AAAAAA this is great", "great college")
  /\ helper.result.errors = <<SpamError, WordsError>>
  /\ ~helper.result.isValid

\* the pieces of a text between whitespace, as <<first, last>> positions
Tokens(s) ==
  { <<i, j>> \in (1..Len(s)) \X (1..Len(s)) :
      /\ i <= j
      /\ i = 1 \/ s[i - 1] \in Whitespace
      /\ j = Len(s) \/ s[j + 1] \in Whitespace
      /\ \A n \in i..j : s[n] \notin Whitespace }

LongTokens == [id \in TextIds |-> Cardinality({ w \in Tokens(TextOf(id)) : w[2] - w[1] + 1 > 2 })]

\* C25: the word-count error is there exactly when the content, whatever the title,
\* has fewer than 20 whitespace-separated tokens longer than 2 characters: 19 such
\* tokens get the error, 20 do not, and tokens of 1 or 2 characters never count.
C25_WordCountOfContent ==
  \A x \in TextIds, t \in TextIds :
    Validated(x, t) =>
      LET present == \E n \in 1..Len(helper.result.errors) :
                       helper.result.errors[n] = WordsError
      IN /\ present <=> LongTokens[x] < 20
         /\ x = "nineteen" => present /\ LongTokens[x] = 19
         /\ x = "plain" => ~present /\ LongTokens[x] = 20
         /\ x \in {"shortwords", "nineteen and short"} => present

\* 19 long tokens and 6 short ones as the content, 20 long tokens as the title: the
\* error is there
C25_Witness ==
  /\ Validated("nineteen and short", "plain")
  /\ helper.result.errors = <<WordsError>>

\* C26: once every one of a set of overlapping helpful-vote requests by different
\* users has completed, helpful.count of each review equals the number of entries of
\* its helpful.users.
C26_CountIsVotersAfterOverlap ==
  AllIdle =>
    \A k \in DOMAIN reviews :
      NoRepeat(reviews[k].helpful.users) =>
        reviews[k].helpful.count = Len(reviews[k].helpful.users)


\* C27: whatever the body of a create request, the review it stores has no helpful
\* votes, no reports, isActive = true and verified = false; the save of an update
\* request changes none of helpful, reported, isActive, verified, nor the user and
\* college the review is stored under.
C27_CountersAndFlagsNotFromBody ==
  [][ /\ \A k \in DOMAIN reviews' \ DOMAIN reviews :
           /\ reviews'[k].helpful = NoVotes
           /\ reviews'[k].reported = NoVotes
           /\ reviews'[k].isActive
           /\ ~reviews'[k].verified
      /\ \A p \in Procs :
           (req[p].kind = "update" /\ req[p].pc = "save" /\ req'[p] # req[p]) =>
             /\ DOMAIN reviews' = DOMAIN reviews
             /\ \A k \in DOMAIN reviews :
                  /\ reviews'[k].helpful = reviews[k].helpful
                  /\ reviews'[k].reported = reviews[k].reported
                  /\ reviews'[k].isActive = reviews[k].isActive
                  /\ reviews'[k].verified = reviews[k].verified ]_vars


\* C28: isActive only goes from true to false: a stored review that is inactive stays
\* stored and inactive; no review set read by updateCollegeRatings holds a review
\* that is inactive by then; and a create request of the user of an inactive review
\* for its college is answered 400 by the duplicate check and stores nothing.
C28_InactiveIsForGood ==
  [][ /\ \A k \in DOMAIN reviews :
           ~reviews[k].isActive => k \in DOMAIN reviews' /\ ~reviews'[k].isActive
      /\ \A p \in Procs :
           (req[p].pc = "aggRead" /\ req'[p].pc = "aggWrite") =>
             \A k \in DOMAIN reviews :
               ~reviews[k].isActive =>
                 \A r \in req'[p].snapshot : r.key # k
      /\ \A p \in Procs :
           ( /\ req[p].kind = "create" /\ req[p].pc = "findOne" /\ req'[p] # req[p]
             /\ req[p].rid \in DOMAIN reviews
             /\ ~reviews[req[p].rid].isActive )
           => /\ lastResponse'.kind = "create" /\ lastResponse'.status = 400
              /\ req'[p].pc = "idle"
              /\ reviews' = reviews /\ colleges' = colleges ]_vars

\* a user whose review of a college is inactive sent a valid create request for that
\* college: it has reached the duplicate check
C28_Witness ==
  \E p \in Procs :
    /\ req[p].kind = "create" /\ req[p].pc = "findOne"
    /\ req[p].rid \in DOMAIN reviews
    /\ ~reviews[req[p].rid].isActive
    /\ lastAgg[req[p].rid[2]].written
    /\ colleges[req[p].rid[2]].reviews.totalReviews = 0


\* ----------------------------------------------------------- admissions
\* The application routes. An application is stored under (applicant, college): the
\* model has one program per college. Each request is handled in one step.
MaxAppRequests == 4

AppColleges == {1, NumColleges}
ApplicationKeys == Users \X AppColleges

\* req.user.name.split(" ") and req.user.email
NameParts(u) == IF u = 1 THEN <<"Ada", "Lovelace">> ELSE <<"Plato">>
Email(u) == IF u = 1 THEN "ada@example.com" ELSE "plato@example.com"

\* new Date(): the number of the request
Now == started + 1
NoDate == 0

\* new Application({ applicant, college, program, degreeLevel, applicationData:
\* { personalInfo: { firstName, lastName, email } }, fees }) with the schema defaults
NewApplication(u) ==
  [applicationData |->
     [personalInfo |-> [firstName |-> NameParts(u)[1],
                        lastName |-> IF Len(NameParts(u)) > 1 THEN NameParts(u)[2] ELSE "",
                        email |-> Email(u)],
      academicInfo |-> << >>,
      essays |-> << >>],
   documents |-> << >>,
   status |-> "draft",
   submittedAt |-> NoDate, reviewedAt |-> NoDate, decisionDate |-> NoDate,
   notes |-> << >>]

\* the answer to user u's request on application k
AppResponse(kind, u, k, status) ==
  [kind |-> kind, college |-> k[2], action |-> "none", status |-> status,
   user |-> u, application |-> k]

\* the parts of the state no application route touches
AppFrame ==
  /\ started < MaxAppRequests
  /\ started' = started + 1
  /\ UNCHANGED <<reviews, colleges, req, faults, overlaps, reviewWrites, lastAgg, helper>>

\* Application.findOne({ _id: id, applicant: req.user.id }) finds a document
OwnApplication(u, k) == k \in DOMAIN applications /\ k[1] = u

\* faulty variant: the status is not looked at
AnyStatus(application) == TRUE

\* application.status === "draft"
IsDraft(application) == application.status = "draft"

\* POST /api/admissions/applications by user u for college c
CreateApplication(u, c, valid) ==
  /\ AppFrame
  /\ IF ~valid
     THEN /\ lastResponse' = AppResponse("createApplication", u, <<u, c>>, 400)
          /\ UNCHANGED <<applications, applicants>>
     ELSE IF c \notin DOMAIN colleges
     THEN /\ lastResponse' = AppResponse("createApplication", u, <<u, c>>, 404)
          /\ UNCHANGED <<applications, applicants>>
     ELSE IF <<u, c>> \in DOMAIN applications
     THEN /\ lastResponse' = AppResponse("createApplication", u, <<u, c>>, 400)
          /\ UNCHANGED <<applications, applicants>>
     ELSE /\ applications' = (<<u, c>> :> NewApplication(u)) @@ applications
          /\ applicants' = [applicants EXCEPT ![u] = Append(@, <<u, c>>)]
          /\ lastResponse' = AppResponse("createApplication", u, <<u, c>>, 201)

\* { ...application.applicationData, ...updateData.applicationData }
Spread(old, new) ==
  [f \in DOMAIN old \cup DOMAIN new |-> IF f \in DOMAIN new THEN new[f] ELSE old[f]]

FullInfo == [firstName |-> "Plato", lastName |-> "Athens", email |-> "plato@example.com"]

\* request bodies of the update route
UpdateBodies ==
  { [applicationData |-> [academicInfo |-> [gpa |-> 4], essays |-> <<"why">>]],
    [applicationData |-> [personalInfo |-> FullInfo, academicInfo |-> [gpa |-> 4],
                          essays |-> <<"why">>]],
    [applicationData |-> [academicInfo |-> [gpa |-> 0]]],
    [applicationData |-> [essays |-> << >>]],
    [documents |-> <<"transcript.pdf">>] }

\* PUT /api/admissions/applications/:id by user u
UpdateApplication(u, k, body) ==
  /\ AppFrame
  /\ UNCHANGED applicants
  /\ IF ~OwnApplication(u, k)
     THEN /\ lastResponse' = AppResponse("updateApplication", u, k, 404)
          /\ UNCHANGED applications
     ELSE IF ~IsDraft(applications[k])
     THEN /\ lastResponse' = AppResponse("updateApplication", u, k, 400)
          /\ UNCHANGED applications
     ELSE /\ applications' =
               [applications EXCEPT
                  ![k].applicationData =
                     IF "applicationData" \in DOMAIN body
                     THEN Spread(@, body.applicationData) ELSE @,
                  ![k].documents =
                     IF "documents" \in DOMAIN body THEN body.documents ELSE @]
          /\ lastResponse' = AppResponse("updateApplication", u, k, 200)

\* !x for a string that may be missing
NoString(record, field) == field \notin DOMAIN record \/ record[field] = ""

\* !x for a number that may be missing
NoNumber(record, field) == field \notin DOMAIN record \/ record[field] = 0

\* the checks of the submit route pass
Complete(application) ==
  LET data == application.applicationData
  IN /\ ~NoString(data.personalInfo, "firstName")
     /\ ~NoString(data.personalInfo, "lastName")
     /\ ~NoString(data.personalInfo, "email")
     /\ ~NoNumber(data.academicInfo, "gpa")
     /\ Len(data.essays) # 0

\* POST /api/admissions/applications/:id/submit by user u
SubmitApplication(u, k) ==
  /\ AppFrame
  /\ UNCHANGED applicants
  /\ IF ~OwnApplication(u, k)
     THEN /\ lastResponse' = AppResponse("submitApplication", u, k, 404)
          /\ UNCHANGED applications
     ELSE IF ~IsDraft(applications[k]) \/ ~Complete(applications[k])
     THEN /\ lastResponse' = AppResponse("submitApplication", u, k, 400)
          /\ UNCHANGED applications
     ELSE /\ applications' = [applications EXCEPT ![k].status = "submitted",
                                                  ![k].submittedAt = Now]
          /\ lastResponse' = AppResponse("submitApplication", u, k, 200)

\* DELETE /api/admissions/applications/:id by user u
DeleteApplication(u, k) ==
  /\ AppFrame
  /\ IF ~OwnApplication(u, k)
     THEN /\ lastResponse' = AppResponse("deleteApplication", u, k, 404)
          /\ UNCHANGED <<applications, applicants>>
     ELSE IF ~IsDraft(applications[k])
     THEN /\ lastResponse' = AppResponse("deleteApplication", u, k, 400)
          /\ UNCHANGED <<applications, applicants>>
     ELSE /\ applications' = [j \in DOMAIN applications \ {k} |-> applications[j]]
          /\ applicants' = [applicants EXCEPT ![u] = SelectSeq(@, LAMBDA j : j # k)]
          /\ lastResponse' = AppResponse("deleteApplication", u, k, 200)

\* the admin of the status route is no applicant
Admin == 0

AdminStatuses == {"submitted", "under-review", "accepted", "rejected", "waitlisted"}
Statuses == {"draft"} \cup AdminStatuses

\* PUT /api/admissions/admin/applications/:id/status with { status, notes }
SetApplicationStatus(k, status, notes) ==
  /\ AppFrame
  /\ UNCHANGED applicants
  /\ IF status \notin AdminStatuses
     THEN /\ lastResponse' = [AppResponse("setStatus", Admin, k, 400) EXCEPT !.action = status]
          /\ UNCHANGED applications
     ELSE IF k \notin DOMAIN applications
     THEN /\ lastResponse' = [AppResponse("setStatus", Admin, k, 404) EXCEPT !.action = status]
          /\ UNCHANGED applications
     ELSE /\ applications' =
               [applications EXCEPT
                  ![k].status = status,
                  ![k].reviewedAt = Now,
                  ![k].decisionDate = IF status \in {"accepted", "rejected"} THEN Now ELSE @,
                  ![k].notes = IF notes # "" THEN Append(@, notes) ELSE @]
          /\ lastResponse' = [AppResponse("setStatus", Admin, k, 200) EXCEPT !.action = status]

\* applicant and admin requests on applications, one at a time
NextAdmissions ==
  \/ \E u \in Users, c \in AppColleges, valid \in BOOLEAN : CreateApplication(u, c, valid)
  \/ \E u \in Users, k \in ApplicationKeys, body \in UpdateBodies : UpdateApplication(u, k, body)
  \/ \E u \in Users, k \in ApplicationKeys : SubmitApplication(u, k)
  \/ \E u \in Users, k \in ApplicationKeys : DeleteApplication(u, k)
  \/ \E k \in ApplicationKeys, status \in Statuses, notes \in {"", "interview held"} :
       SetApplicationStatus(k, status, notes)

SpecAdmissions == Init /\ [][NextAdmissions]_vars


\* ------------------------------------------------- claims on applications
ApplicantKinds == {"updateApplication", "submitApplication", "deleteApplication"}

\* the step answers a request of the owner of application k by one of the
\* update, submit and delete routes
OwnersRequest(k) ==
  /\ lastResponse'.kind \in ApplicantKinds
  /\ lastResponse'.application = k
  /\ lastResponse'.user = k[1]
  /\ k \in DOMAIN applications

\* C29: an update, submit or delete request by the applicant on an application whose
\* status is not 'draft' is answered 400 and leaves the application and the user's
\* applications list as they were; a submit answered 200 takes a draft to 'submitted'
\* with submittedAt set; a submit of an application that was submitted before is
\* answered 400.
C29_OnlyDraftsChange ==
  [][\A k \in ApplicationKeys :
       OwnersRequest(k) =>
         /\ applications[k].status # "draft" =>
              /\ lastResponse'.status = 400
              /\ k \in DOMAIN applications'
              /\ applications'[k] = applications[k]
              /\ applicants'[k[1]] = applicants[k[1]]
         /\ (lastResponse'.kind = "submitApplication" /\ lastResponse'.status = 200) =>
              /\ applications[k].status = "draft"
              /\ applications'[k].status = "submitted"
              /\ applications'[k].submittedAt = Now
              /\ applications'[k].submittedAt # NoDate
         /\ (lastResponse'.kind = "submitApplication"
             /\ applications[k].submittedAt # NoDate) =>
              lastResponse'.status = 400]_vars

\* a submitted application, its submittedAt set, was submitted a second time and the
\* request was answered 400
C29_Witness ==
  /\ lastResponse.kind = "submitApplication"
  /\ lastResponse.status = 400
  /\ lastResponse.application \in DOMAIN applications
  /\ lastResponse.user = lastResponse.application[1]
  /\ applications[lastResponse.application].status = "submitted"
  /\ applications[lastResponse.application].submittedAt # NoDate
  /\ applications[lastResponse.application].submittedAt < started

\* C30: every stored application whose status is not 'draft' has submittedAt set and
\* passes the completeness check of the submit route (first name, last name, email,
\* GPA, at least one essay), whichever route set its status.
C30_NonDraftsWereSubmitted ==
  \A k \in DOMAIN applications :
    applications[k].status # "draft" =>
      /\ applications[k].submittedAt # NoDate
      /\ Complete(applications[k])

====
